---- MODULE Spec2Model ----
(* The batch conversion pipeline of the EML to PDF converter:               *)
(* the application store (lib/store/app-store.ts), the conversion form      *)
(* (ConverterForm: handleFilesAdded, handleStartConversion,                 *)
(* handlePauseResumeConversion) and batchProcessEmlFiles                    *)
(* (lib/utils/converter.ts).  One step of the model is one JavaScript task: *)
(* a user event handler, or the continuation of an await.                   *)
EXTENDS Integers, Sequences, FiniteSets, TLC

\* ------------------------------------------------------------------ bounds
\* number of files the user adds in total
NumFiles == 3
\* options.batchSize chosen in the form
BatchSize == 2
\* number of clicks on the pause/resume button
MaxToggles == 2
\* number of conversions the user starts
MaxRuns == 1
\* number of files the user drops on the form at once
MaxAdd == 1

\* the per-batch concurrency cap the caller asks for
ConcurrencyPerBatch == 1
\* documents handed to one call of mergePdfs, and pages of one document
MaxDocs == 3
MaxPages == 5
\* attachments of one email
MaxAttachments == 2
\* characters of the text handed to wrapText, and the widest line asked for
MaxTextLen == 4
MaxLineWidth == 4
\* parts of one message besides its HTML part, and cid: references in the HTML
MaxLeaves == 2
MaxRefs == 2
\* pieces (plain runs and encoded-words) of one header value
MaxPieces == 3
\* addTextPage: lines of the longest text body
MaxBodyLines == 56
\* addAttachmentsPage: entries of the longest attachment list
MaxEntries == 14
\* POST requests that reach the convert route
MaxRequests == 2
\* addLog calls of a session of the log viewer
MaxLogs == 103

\* ------------------------------------------------------- program constants
\* addHtmlPage: pageWidth, pageHeight and margin, in points
PageWidth == 595
PageHeight == 842
PageMargin == 50
\* logs.slice(0, 100)
LogCap == 100

VARIABLES
  files,            \* store: FileItem[]
  totalCount,       \* store
  processedCount,   \* store
  isProcessing,     \* store
  options,          \* store: [mergePdf, autoPrint] (batchSize is BatchSize)
  logs,             \* store: LogEntry[], newest first
  isConverting,     \* ConverterForm useState
  added,            \* number of files handed to addFiles so far (uuid source)
  toggles,          \* clicks on pause/resume so far
  runs,             \* conversions started so far
  pc,               \* position of handleStartConversion/batchProcessEmlFiles
  runFiles,         \* argument files: File[] (names)
  runOptions,       \* destructured options of the running call
  isProcessingSnap, \* const { isProcessing } = useAppStore.getState()
  batchIndex,       \* loop variable
  task,             \* per file of the run: position of its map callback
  batchPdfData,     \* Uint8Array[] of the current batch
  allPdfData,       \* Uint8Array[] of merged batches
  onErrorCalls,     \* calls of options.onError, in order
  onCompleteCalls,  \* calls of options.onComplete, in order
  onBatchCompleteCalls, \* calls of options.onBatchComplete, in order
  mergeCalls,       \* calls of mergePdfs, in order
  printed,          \* calls of printPdf, in order
  thrown,           \* per file of the run: the error its pipeline threw, if any
  mgBuffers,        \* mergePdfs: argument pdfBuffers, a list of documents
  mgPc,             \* mergePdfs: "idle", "called" or "saved"
  mgResult,         \* mergePdfs: the pages of the saved document
  cpPc,             \* convertEmailToPdf: position of the call
  cpEmail,          \* convertEmailToPdf: argument email
  cpPages,          \* convertEmailToPdf: pages of pdfDoc, in order
  cpContainer,      \* addHtmlPage: the container is a child of document.body
  cpBlobUrls,       \* blob URLs created and not revoked
  cpRaster,         \* addHtmlPage: "none", "ok" or "failed" (html2canvas)
  cpImage,          \* addHtmlPage: width and height of the embedded image
  wtPc,             \* wrapText: position of the call
  wtText,           \* wrapText: argument text, a sequence of characters
  wtMaxWidth,       \* wrapText: argument maxWidth
  wtParagraphs,     \* wrapText: text.split('\n')
  wtP,              \* wrapText: index of the current paragraph
  wtI,              \* wrapText: loop variable i (from 0)
  wtCurrentLine,    \* wrapText: currentLine
  wtCurrentWidth,   \* wrapText: currentWidth
  wtStart,          \* wrapText: start
  wtLines,          \* wrapText: lines (its first MaxLinesKept entries)
  dcPc,             \* decoding one message: "idle", "called", "parsed", "resolved"
  dcChildNodes,     \* the leaves of the message besides its HTML part
  dcHtmlBody,       \* htmlBody: the cid: references of the HTML part
  dcAttachments,    \* attachments, as parseEmlContent returns them
  dcProcessedHtml,  \* processedHtml of processHtmlWithInlineImages
  hvPc,             \* decodeHeaderValue: "idle", "called", "returned" or "threw"
  hvValue,          \* decodeHeaderValue: argument value, a sequence of pieces
  hvResult,         \* decodeHeaderValue: the string returned
  tpPc,             \* addTextPage: position of the call
  tpTextLines,      \* addTextPage: textLines, each line the widths of its words
  tpLine,           \* addTextPage: index of the current line (from 1)
  tpI,              \* addTextPage: loop variable i of the words (from 0)
  tpCurrentLine,    \* addTextPage: width of currentLine (0 for the empty string)
  tpYPos,           \* addTextPage: yPos
  tpCurrentPage,    \* addTextPage: number of currentPage among the pages added
  tpDrawn,          \* addTextPage: the body drawText calls, in order
  apPc,             \* addAttachmentsPage: position of the call
  apAttachments,    \* addAttachmentsPage: email.attachments (their contentId)
  apI,              \* addAttachmentsPage: loop variable i (from 0)
  apYPos,           \* addAttachmentsPage: yPos
  apCurrentPage,    \* addAttachmentsPage: number of currentPage among the pages added
  apDrawn,          \* addAttachmentsPage: the drawText calls of the entries, in order
  pwWorker,         \* PdfWorkerService: this.worker, 0 for null, else the number of the Worker
  pwCreated,        \* PdfWorkerService: Workers created so far
  pwTerminated,     \* the Workers on which terminate() has been called
  pwListeners,      \* the 'message' listeners: [worker, call] for the promise of each call
  pwInbox,          \* the mails posted to a Worker and not answered: [worker, call]
  pwPc,             \* POST: position of each request
  pwPromise,        \* generatePdf: the promise of each request's call
  pwResponse,       \* POST: the response returned to each request
  lgSerial,         \* log viewer: addLog calls so far, the number of the last message
  lgCount           \* log viewer: addLog calls since the last clearLogs

storeVars == <<files, totalCount, processedCount, isProcessing, options, logs>>
uiVars == <<isConverting, added, toggles, runs>>
runVars == <<pc, runFiles, runOptions, isProcessingSnap, batchIndex, task,
             batchPdfData, allPdfData>>
callVars == <<onErrorCalls, onCompleteCalls, onBatchCompleteCalls, mergeCalls,
              printed, thrown>>
appVars == <<storeVars, uiVars, runVars, callVars>>
mergeVars == <<mgBuffers, mgPc, mgResult>>
composeVars == <<cpPc, cpEmail, cpPages, cpContainer, cpBlobUrls, cpRaster,
                 cpImage>>
wrapVars == <<wtPc, wtText, wtMaxWidth, wtParagraphs, wtP, wtI, wtCurrentLine,
              wtCurrentWidth, wtStart, wtLines>>
decodeVars == <<dcPc, dcChildNodes, dcHtmlBody, dcAttachments, dcProcessedHtml>>
headerVars == <<hvPc, hvValue, hvResult>>
textVars == <<tpPc, tpTextLines, tpLine, tpI, tpCurrentLine, tpYPos, tpCurrentPage, tpDrawn>>
attachVars == <<apPc, apAttachments, apI, apYPos, apCurrentPage, apDrawn>>
workerVars == <<pwWorker, pwCreated, pwTerminated, pwListeners, pwInbox, pwPc, pwPromise, pwResponse>>
logVars == <<lgSerial, lgCount>>
libVars == <<mergeVars, composeVars, wrapVars, decodeVars, headerVars, textVars, attachVars, workerVars, logVars>>
outsideMerge == <<appVars, composeVars, wrapVars, decodeVars, headerVars, textVars, attachVars, workerVars, logVars>>
outsideCompose == <<appVars, mergeVars, wrapVars, decodeVars, headerVars, textVars, attachVars, workerVars, logVars>>
outsideWrap == <<appVars, mergeVars, composeVars, decodeVars, headerVars, textVars, attachVars, workerVars, logVars>>
outsideDecode == <<appVars, mergeVars, composeVars, wrapVars, headerVars, textVars, attachVars, workerVars, logVars>>
outsideHeader == <<appVars, mergeVars, composeVars, wrapVars, decodeVars, textVars, attachVars, workerVars, logVars>>
outsideText == <<appVars, mergeVars, composeVars, wrapVars, decodeVars, headerVars, attachVars, workerVars, logVars>>
outsideAttach == <<appVars, mergeVars, composeVars, wrapVars, decodeVars, headerVars, textVars, workerVars, logVars>>
outsideWorker == <<appVars, mergeVars, composeVars, wrapVars, decodeVars, headerVars, textVars, attachVars, logVars>>
outsideLog == <<appVars, mergeVars, composeVars, wrapVars, decodeVars, headerVars, textVars, attachVars, workerVars>>
vars == <<appVars, libVars>>

\* ----------------------------------------------------------------- helpers
\* the sequences of at most n elements of S
SeqsUpTo(S, n) == UNION {[1..m -> S] : m \in 0..n}

Take(s, n) == SubSeq(s, 1, IF Len(s) < n THEN Len(s) ELSE n)

\* file.name of the k-th file the user adds
NameOf(k) == <<"name", k>>
\* uuidv4() for the k-th file
Uuid(k) == <<"uuid", k>>

\* new FileItem
FileItem(k) == [id |-> Uuid(k), file |-> NameOf(k), status |-> "pending",
                progress |-> {}, error |-> {}]

\* a log message
Msg(text, a, b) == [text |-> text, a |-> a, b |-> b]

\* variant: addLog without the slice
AddLogUncapped(lg, level, message) ==
  <<[level |-> level, message |-> message]>> \o lg

\* addLog: prepend and keep the newest LogCap entries
AddLog(lg, level, message) ==
  Take(<<[level |-> level, message |-> message]>> \o lg, LogCap)

\* updateFileStatus: replaces status, progress and error of the entries whose
\* id equals the given id
UpdateFileStatus(fs, id, status, progress, error) ==
  [j \in DOMAIN fs |->
     IF fs[j].id = id
       THEN [fs[j] EXCEPT !.status = status, !.progress = progress,
                          !.error = error]
       ELSE fs[j]]

\* the bytes convertEmailToPdf returns for a file: a header page and a body
\* page, each tagged with the file it was made from
PdfOf(name) == <<[src |-> name, page |-> 1], [src |-> name, page |-> 2]>>

\* variant: every buffer's pages are put in front of the pages copied so far
RECURSIVE MergePdfsPrepending(_)
MergePdfsPrepending(pdfBuffers) ==
  IF pdfBuffers = <<>> THEN <<>>
  ELSE MergePdfsPrepending(Tail(pdfBuffers)) \o Head(pdfBuffers)

\* mergePdfs: copies the pages of every buffer, in order, into one document
RECURSIVE MergePdfs(_)
MergePdfs(pdfBuffers) ==
  IF pdfBuffers = <<>> THEN <<>>
  ELSE Head(pdfBuffers) \o MergePdfs(Tail(pdfBuffers))

\* failure messages of the awaited steps
DecodeErrors == {"ReadError", "ParseError"}
ComposeErrors == {"ComposeError"}

\* batches.push(files.slice(i, i + batchSize))
NumBatches(n) == (n + BatchSize - 1) \div BatchSize
BatchOf(k, n) == {i \in 1..n : (i - 1) \div BatchSize = k}
BatchFirst(k) == k * BatchSize + 1
BatchLast(k, n) == IF (k + 1) * BatchSize < n THEN (k + 1) * BatchSize ELSE n

\* the session is over once the last conversion has finished
SessionOver == pc = "idle" /\ runs = MaxRuns

Settled(t) == t \in {"success", "error", "skipped"}
InFlight(t) == t \in {"reading", "converting"}

\* ------------------------------------------------------------------- state
AppInit ==
  /\ files = <<>>
  /\ totalCount = 0
  /\ processedCount = 0
  /\ isProcessing = FALSE
  /\ options = [mergePdf |-> FALSE, autoPrint |-> FALSE]
  /\ logs = <<>>
  /\ isConverting = FALSE
  /\ added = 0
  /\ toggles = 0
  /\ runs = 0
  /\ pc = "idle"
  /\ runFiles = <<>>
  /\ runOptions = [mergePdf |-> FALSE, autoPrint |-> FALSE]
  /\ isProcessingSnap = FALSE
  /\ batchIndex = 0
  /\ task = <<>>
  /\ batchPdfData = <<>>
  /\ allPdfData = <<>>
  /\ onErrorCalls = <<>>
  /\ onCompleteCalls = <<>>
  /\ onBatchCompleteCalls = <<>>
  /\ mergeCalls = <<>>
  /\ printed = <<>>
  /\ thrown = <<>>

\* no call of mergePdfs on its own is under way
MergeIdle == mgBuffers = <<>> /\ mgPc = "idle" /\ mgResult = <<>>

\* no call of convertEmailToPdf on its own is under way
NoEmail == [hasHtml |-> FALSE, textLines |-> 1, importantHeaders |-> 0,
            attachments |-> <<>>]
ComposeIdle ==
  /\ cpPc = "idle"
  /\ cpEmail = NoEmail
  /\ cpPages = <<>>
  /\ cpContainer = FALSE
  /\ cpBlobUrls = {}
  /\ cpRaster = "none"
  /\ cpImage = [width |-> 0, height |-> 0]

\* no call of wrapText on its own is under way
WrapIdle ==
  /\ wtPc = "idle"
  /\ wtText = <<>>
  /\ wtMaxWidth = 1
  /\ wtParagraphs = <<>>
  /\ wtP = 0
  /\ wtI = 0
  /\ wtCurrentLine = <<>>
  /\ wtCurrentWidth = 0
  /\ wtStart = 0
  /\ wtLines = <<>>

\* no message is being decoded on its own
DecodeIdle ==
  /\ dcPc = "idle"
  /\ dcChildNodes = <<>>
  /\ dcHtmlBody = <<>>
  /\ dcAttachments = <<>>
  /\ dcProcessedHtml = <<>>

\* no call of decodeHeaderValue on its own is under way
HeaderIdle ==
  /\ hvPc = "idle"
  /\ hvValue = <<>>
  /\ hvResult = <<>>

\* addTextPage is not running
TextIdle ==
  /\ tpPc = "idle"
  /\ tpTextLines = <<>>
  /\ tpLine = 0
  /\ tpI = 0
  /\ tpCurrentLine = 0
  /\ tpYPos = 0
  /\ tpCurrentPage = 0
  /\ tpDrawn = <<>>

\* addAttachmentsPage is not running
AttachIdle ==
  /\ apPc = "idle"
  /\ apAttachments = <<>>
  /\ apI = 0
  /\ apYPos = 0
  /\ apCurrentPage = 0
  /\ apDrawn = <<>>

\* no request has reached the convert route
WorkerIdle ==
  /\ pwWorker = 0
  /\ pwCreated = 0
  /\ pwTerminated = {}
  /\ pwListeners = {}
  /\ pwInbox = {}
  /\ pwPc = <<>>
  /\ pwPromise = <<>>
  /\ pwResponse = <<>>

\* no message has been added to the log by hand
LogIdle ==
  /\ lgSerial = 0
  /\ lgCount = 0

LibIdle == MergeIdle /\ ComposeIdle /\ WrapIdle /\ DecodeIdle /\ HeaderIdle /\ TextIdle /\ AttachIdle /\ WorkerIdle /\ LogIdle

Init == AppInit /\ LibIdle

\* ------------------------------------------------- batchProcessEmlFiles
\* updateFileStatus(fileId, 'processing') for the files from..to of the run,
\* in order
RECURSIVE MarkProcessing(_, _, _, _)
MarkProcessing(fs, names, from, to) ==
  IF from > to THEN fs
  ELSE MarkProcessing(UpdateFileStatus(fs, names[from], "processing", {}, {}),
                      names, from + 1, to)

\* variant: batchPdfData is declared outside the loop and never emptied
StartBatchSharedBuffer(k, fs, lg, names, snap, tk) ==
  LET n == Len(names) IN
  [files |-> IF snap THEN MarkProcessing(fs, names, BatchFirst(k), BatchLast(k, n))
             ELSE fs,
   batchPdfData |-> IF k = 0 THEN <<>> ELSE batchPdfData,
   logs |-> AddLog(lg, "info", Msg("batchStart", k + 1, NumBatches(n))),
   task |-> [i \in 1..n |->
               IF i \in BatchOf(k, n)
                 THEN (IF snap THEN "reading" ELSE "skipped")
                 ELSE tk[i]]]

\* the synchronous part of one iteration of the batch loop: the fresh
\* batchPdfData, the start log and every map callback up to its first await
StartBatch(k, fs, lg, names, snap, tk) ==
  LET n == Len(names) IN
  [files |-> IF snap THEN MarkProcessing(fs, names, BatchFirst(k), BatchLast(k, n))
             ELSE fs,
   batchPdfData |-> <<>>,
   logs |-> AddLog(lg, "info", Msg("batchStart", k + 1, NumBatches(n))),
   task |-> [i \in 1..n |->
               IF i \in BatchOf(k, n)
                 THEN (IF snap THEN "reading" ELSE "skipped")
                 ELSE tk[i]]]

\* variant: the final merge also runs over a single merged batch
NeedFinalMergeOfOne(all) == runOptions.mergePdf /\ Len(all) > 0

\* if (mergePdf && allPdfData.length > 1)
NeedFinalMerge(all) == runOptions.mergePdf /\ Len(all) > 1

\* what follows the body of iteration k of the batch loop: the next
\* iteration, or the final merge, or the return
Advance(k, fs, lg, all) ==
  LET n == Len(runFiles) IN
  IF k + 1 < NumBatches(n)
    THEN LET sb == StartBatch(k + 1, fs, lg, runFiles, isProcessingSnap, task) IN
         [pc |-> "batch", batchIndex |-> k + 1, files |-> sb.files,
          logs |-> sb.logs, task |-> sb.task, batchPdfData |-> sb.batchPdfData,
          mergeCalls |-> mergeCalls]
    ELSE IF NeedFinalMerge(all)
      THEN [pc |-> "finalMerge", batchIndex |-> k + 1, files |-> fs,
            logs |-> lg, task |-> task, batchPdfData |-> batchPdfData,
            mergeCalls |-> Append(mergeCalls,
                                  [kind |-> "final", batch |-> k + 1, input |-> all])]
      ELSE [pc |-> "returned", batchIndex |-> k + 1, files |-> fs,
            logs |-> AddLog(lg, "info", Msg("allDone", 0, 0)), task |-> task,
            batchPdfData |-> batchPdfData, mergeCalls |-> mergeCalls]

\* variant: the catch block logs the failure and does not call onError
CatchFileErrorNoCallback(i, errorMessage) ==
  LET fileId == runFiles[i] IN
  /\ files' = UpdateFileStatus(files, fileId, "error", {0}, {errorMessage})
  /\ logs' = AddLog(logs, "error", Msg("fileFailed", fileId, errorMessage))
  /\ onErrorCalls' = onErrorCalls
  /\ task' = [task EXCEPT ![i] = "error"]

\* the catch block of a map callback, with ConverterForm's onError
CatchFileError(i, errorMessage) ==
  LET fileId == runFiles[i] IN
  /\ files' = UpdateFileStatus(files, fileId, "error", {0}, {errorMessage})
  /\ logs' = AddLog(AddLog(logs, "error", Msg("fileFailed", fileId, errorMessage)),
                    "error", Msg("onError", errorMessage, 0))
  /\ onErrorCalls' = Append(onErrorCalls, [fileId |-> fileId, error |-> errorMessage])
  /\ task' = [task EXCEPT ![i] = "error"]

\* readFileAsArrayBuffer and parseEmlContent have completed for file i:
\* onProgress(fileId, 50) and the call of convertEmailToPdf, or the catch block
DecodeDone(i) ==
  /\ pc = "batch"
  /\ i \in DOMAIN task
  /\ task[i] = "reading"
  /\ \/ /\ task' = [task EXCEPT ![i] = "converting"]
        /\ logs' = AddLog(logs, "info", Msg("progress", i, 50))
        /\ UNCHANGED <<files, onErrorCalls, thrown>>
     \/ \E e \in DecodeErrors :
          /\ thrown' = [thrown EXCEPT ![i] = {e}]
          /\ CatchFileError(i, e)
  /\ UNCHANGED <<totalCount, processedCount, isProcessing, options, uiVars,
                 pc, runFiles, runOptions, isProcessingSnap, batchIndex,
                 batchPdfData, allPdfData, onCompleteCalls,
                 onBatchCompleteCalls, mergeCalls, printed>>
  /\ UNCHANGED libVars

\* variant: onComplete is called for every converted file
CallsOnCompleteAlways(mergePdf) == TRUE

\* if (!mergePdf && onComplete): ConverterForm always passes onComplete
CallsOnComplete(mergePdf) == ~mergePdf

\* convertEmailToPdf has completed for file i: the rest of the try block, or
\* the catch block
ConvertDone(i) ==
  /\ pc = "batch"
  /\ i \in DOMAIN task
  /\ task[i] = "converting"
  /\ \/ LET fileId == runFiles[i]
            pdfData == PdfOf(fileId) IN
        /\ batchPdfData' = IF runOptions.mergePdf THEN Append(batchPdfData, pdfData)
                           ELSE batchPdfData
        /\ onCompleteCalls' = IF CallsOnComplete(runOptions.mergePdf)
                                THEN Append(onCompleteCalls,
                                            [fileId |-> fileId, pdfData |-> pdfData])
                                ELSE onCompleteCalls
        /\ files' = UpdateFileStatus(files, fileId, "success", {}, {})
        /\ processedCount' = processedCount + 1
        /\ logs' = AddLog(AddLog(logs, "info", Msg("progress", i, 100)),
                          "success", Msg("fileDone", fileId, 0))
        /\ printed' = IF runOptions.autoPrint /\ ~runOptions.mergePdf
                        THEN Append(printed, [kind |-> "file", of |-> fileId,
                                              pdfData |-> pdfData])
                        ELSE printed
        /\ task' = [task EXCEPT ![i] = "success"]
        /\ UNCHANGED <<onErrorCalls, thrown>>
     \/ /\ \E e \in ComposeErrors :
             /\ thrown' = [thrown EXCEPT ![i] = {e}]
             /\ CatchFileError(i, e)
        /\ UNCHANGED <<batchPdfData, onCompleteCalls, processedCount, printed>>
  /\ UNCHANGED <<totalCount, isProcessing, options, uiVars,
                 pc, runFiles, runOptions, isProcessingSnap, batchIndex,
                 allPdfData, onBatchCompleteCalls, mergeCalls>>
  /\ UNCHANGED libVars

\* variant: the loop goes on as soon as one callback has returned
BatchSettledAny ==
  \E i \in BatchOf(batchIndex, Len(runFiles)) : Settled(task[i])

\* await Promise.all(batch.map(...)): every callback of the batch has returned
BatchSettled ==
  \A i \in BatchOf(batchIndex, Len(runFiles)) : Settled(task[i])

\* Promise.all of the current batch has resolved: the batch merge is called,
\* or the loop goes on
BatchJoin ==
  /\ pc = "batch"
  /\ BatchSettled
  /\ IF runOptions.mergePdf /\ Len(batchPdfData) > 0
       THEN /\ pc' = "merge"
            /\ mergeCalls' = Append(mergeCalls,
                                    [kind |-> "batch", batch |-> batchIndex,
                                     input |-> batchPdfData])
            /\ UNCHANGED <<files, logs, task, batchIndex, batchPdfData>>
       ELSE LET a == Advance(batchIndex, files, logs, allPdfData) IN
            /\ pc' = a.pc
            /\ batchIndex' = a.batchIndex
            /\ files' = a.files
            /\ logs' = a.logs
            /\ task' = a.task
            /\ batchPdfData' = a.batchPdfData
            /\ mergeCalls' = a.mergeCalls
  /\ UNCHANGED <<totalCount, processedCount, isProcessing, options, uiVars,
                 runFiles, runOptions, isProcessingSnap, allPdfData,
                 onErrorCalls, onCompleteCalls, onBatchCompleteCalls, printed,
                 thrown>>
  /\ UNCHANGED libVars

\* variant: the catch block of a merge step swallows the error without a log
CatchMergeErrorSilent(lg, text, k) == lg

\* the catch block of a merge step: one error entry in the log, nothing else
CatchMergeError(lg, text, k) == AddLog(lg, "error", Msg(text, k, 0))

\* mergePdfs(batchPdfData) has completed: the rest of the try block or the
\* catch block, then the loop goes on
BatchMergeDone ==
  /\ pc = "merge"
  /\ \E ok \in BOOLEAN :
       LET mergedPdf == MergePdfs(batchPdfData)
           all == IF ok THEN Append(allPdfData, mergedPdf) ELSE allPdfData
           lg == IF ok
                   THEN AddLog(logs, "success", Msg("batchMerged", batchIndex + 1, 0))
                   ELSE CatchMergeError(logs, "mergeFailed", batchIndex + 1)
           a == Advance(batchIndex, files, lg, all) IN
       /\ allPdfData' = all
       /\ onBatchCompleteCalls' = IF ok THEN Append(onBatchCompleteCalls, mergedPdf)
                                  ELSE onBatchCompleteCalls
       /\ printed' = IF ok /\ runOptions.autoPrint
                       THEN Append(printed, [kind |-> "batch", of |-> batchIndex + 1,
                                             pdfData |-> mergedPdf])
                       ELSE printed
       /\ pc' = a.pc
       /\ batchIndex' = a.batchIndex
       /\ files' = a.files
       /\ logs' = a.logs
       /\ task' = a.task
       /\ batchPdfData' = a.batchPdfData
       /\ mergeCalls' = a.mergeCalls
  /\ UNCHANGED <<totalCount, processedCount, isProcessing, options, uiVars,
                 runFiles, runOptions, isProcessingSnap,
                 onErrorCalls, onCompleteCalls, thrown>>
  /\ UNCHANGED libVars

\* mergePdfs(allPdfData) has completed: the rest of the try block or the catch
\* block, then the last log and the return
FinalMergeDone ==
  /\ pc = "finalMerge"
  /\ \E ok \in BOOLEAN :
       LET finalMergedPdf == MergePdfs(allPdfData)
           lg == IF ok
                   THEN AddLog(logs, "success", Msg("allMerged", 0, 0))
                   ELSE CatchMergeError(logs, "finalMergeFailed", 0) IN
       /\ onBatchCompleteCalls' = IF ok THEN Append(onBatchCompleteCalls, finalMergedPdf)
                                  ELSE onBatchCompleteCalls
       /\ printed' = IF ok /\ runOptions.autoPrint
                       THEN Append(printed, [kind |-> "all", of |-> 0,
                                             pdfData |-> finalMergedPdf])
                       ELSE printed
       /\ logs' = AddLog(lg, "info", Msg("allDone", 0, 0))
  /\ pc' = "returned"
  /\ UNCHANGED <<files, totalCount, processedCount, isProcessing, options, uiVars,
                 runFiles, runOptions, isProcessingSnap, batchIndex, task,
                 batchPdfData, allPdfData, onErrorCalls, onCompleteCalls,
                 mergeCalls, thrown>>
  /\ UNCHANGED libVars

\* ----------------------------------------------------------- ConverterForm
\* handleFilesAdded with k new files: addFiles and a log
HandleFilesAdded(k) ==
  /\ ~SessionOver
  /\ added + k <= NumFiles
  /\ files' = files \o [j \in 1..k |-> FileItem(added + j)]
  /\ totalCount' = totalCount + k
  /\ logs' = AddLog(logs, "info", Msg("filesAdded", k, 0))
  /\ added' = added + k
  /\ UNCHANGED <<processedCount, isProcessing, options, isConverting, toggles,
                 runs, runVars, callVars>>
  /\ UNCHANGED libVars

\* the two checkboxes of the form, disabled while converting
UpdateOptions ==
  /\ ~SessionOver
  /\ ~isConverting
  /\ \E o \in [mergePdf : BOOLEAN, autoPrint : BOOLEAN] :
       /\ o # options
       /\ options' = o
  /\ UNCHANGED <<files, totalCount, processedCount, isProcessing, logs, uiVars,
                 runVars, callVars>>
  /\ UNCHANGED libVars

\* handleStartConversion up to its await: startProcessing, a log, and
\* batchProcessEmlFiles up to the Promise.all of its first batch
HandleStartConversion ==
  /\ ~isConverting
  /\ Len(files) > 0
  /\ runs < MaxRuns
  /\ LET names == [j \in DOMAIN files |-> files[j].file]
         sb == StartBatch(0, files, AddLog(logs, "info", Msg("start", 0, 0)),
                          names, TRUE, [j \in DOMAIN files |-> "waiting"]) IN
     /\ isConverting' = TRUE
     /\ isProcessing' = TRUE
     /\ runFiles' = names
     /\ runOptions' = options
     /\ isProcessingSnap' = TRUE
     /\ batchIndex' = 0
     /\ files' = sb.files
     /\ logs' = sb.logs
     /\ task' = sb.task
     /\ batchPdfData' = sb.batchPdfData
     /\ thrown' = [j \in DOMAIN files |-> {}]
  /\ pc' = "batch"
  /\ runs' = runs + 1
  /\ allPdfData' = <<>>
  /\ onErrorCalls' = <<>>
  /\ onCompleteCalls' = <<>>
  /\ onBatchCompleteCalls' = <<>>
  /\ mergeCalls' = <<>>
  /\ printed' = <<>>
  /\ UNCHANGED <<totalCount, processedCount, options, added, toggles>>
  /\ UNCHANGED libVars

\* the finally block of handleStartConversion, after batchProcessEmlFiles has
\* returned: setIsConverting(false) and stopProcessing
ConversionFinished ==
  /\ pc = "returned"
  /\ pc' = "idle"
  /\ isConverting' = FALSE
  /\ isProcessing' = FALSE
  /\ processedCount' = 0
  /\ UNCHANGED <<files, totalCount, options, logs, added, toggles, runs,
                 runFiles, runOptions, isProcessingSnap, batchIndex, task,
                 batchPdfData, allPdfData, callVars>>
  /\ UNCHANGED libVars

\* handlePauseResumeConversion; its button is disabled unless converting
HandlePauseResumeConversion ==
  /\ isConverting
  /\ toggles < MaxToggles
  /\ toggles' = toggles + 1
  /\ IF isProcessing
       THEN /\ isProcessing' = FALSE
            /\ logs' = AddLog(logs, "info", Msg("paused", 0, 0))
       ELSE /\ isProcessing' = TRUE
            /\ logs' = AddLog(logs, "info", Msg("resumed", 0, 0))
  /\ UNCHANGED <<files, totalCount, processedCount, options, isConverting,
                 added, runs, runVars, callVars>>
  /\ UNCHANGED libVars

\* removeFile(id), the remove buttons of FileList (never disabled): the entry
\* is filtered out and totalCount drops by one when the id was present
RemoveFile(id) ==
  /\ files' = SelectSeq(files, LAMBDA f : f.id # id)
  /\ totalCount' = totalCount
                     - (IF \E j \in DOMAIN files : files[j].id = id THEN 1 ELSE 0)
  /\ UNCHANGED <<processedCount, isProcessing, options, logs, uiVars, runVars,
                 callVars>>
  /\ UNCHANGED libVars

\* clearFiles, the remove-all button of FileList (never disabled)
ClearFiles ==
  /\ files' = <<>>
  /\ totalCount' = 0
  /\ processedCount' = 0
  /\ UNCHANGED <<isProcessing, options, logs, uiVars, runVars, callVars>>
  /\ UNCHANGED libVars

Next ==
  \/ \E k \in 1..MaxAdd : HandleFilesAdded(k)
  \/ UpdateOptions
  \/ HandleStartConversion
  \/ HandlePauseResumeConversion
  \/ \E i \in 1..NumFiles : DecodeDone(i)
  \/ \E i \in 1..NumFiles : ConvertDone(i)
  \/ BatchJoin
  \/ BatchMergeDone
  \/ FinalMergeDone
  \/ ConversionFinished

Spec == Init /\ [][Next]_vars

\* the form with its file list: a run interleaved with the remove buttons
\* (the pause button is left to Spec)
SessionNext ==
  \/ \E k \in 1..MaxAdd : HandleFilesAdded(k)
  \/ UpdateOptions
  \/ HandleStartConversion
  \/ \E i \in 1..NumFiles : DecodeDone(i)
  \/ \E i \in 1..NumFiles : ConvertDone(i)
  \/ BatchJoin
  \/ BatchMergeDone
  \/ FinalMergeDone
  \/ ConversionFinished
  \/ \E k \in 1..NumFiles : RemoveFile(Uuid(k))
  \/ ClearFiles

SessionSpec == Init /\ [][SessionNext]_vars

\* ------------------------------------------------------------ properties
BatchNo(i) == (i - 1) \div BatchSize
RunIndexOf(name) == CHOOSE i \in DOMAIN runFiles : runFiles[i] = name
RunReturned == pc = "returned" \/ (pc = "idle" /\ runs > 0)
RunInProgress == pc \in {"batch", "merge", "finalMerge", "returned"}

\* the log entries of the latest conversion, newest first
RunLog ==
  LET starts == {p \in DOMAIN logs : logs[p].message.text = "start"} IN
  IF starts = {} THEN <<>>
  ELSE SubSeq(logs, 1, CHOOSE p \in starts : \A q \in starts : p <= q)

LogTexts(lg, texts) == {p \in DOMAIN lg : lg[p].message.text \in texts}

OnErrorCallsFor(i) ==
  {c \in DOMAIN onErrorCalls : onErrorCalls[c].fileId = runFiles[i]}

\* C1: a file whose decoding or composing throws gets exactly one onError
\* call, carrying the thrown message, and is the only file affected: no file
\* that did not throw gets onError, and when batchProcessEmlFiles has returned
\* every file that did not throw has succeeded, in the failing file's batch
\* and in the later batches.
C1_FailureIsolated ==
  /\ \A i \in DOMAIN task :
       /\ thrown[i] # {} =>
            /\ task[i] = "error"
            /\ Cardinality(OnErrorCallsFor(i)) = 1
            /\ \A c \in OnErrorCallsFor(i) : onErrorCalls[c].error \in thrown[i]
       /\ thrown[i] = {} => OnErrorCallsFor(i) = {}
  /\ RunReturned =>
       \A i \in DOMAIN task :
         task[i] = (IF thrown[i] = {} THEN "success" ELSE "error")

C1_Witness ==
  /\ pc = "returned"
  /\ Len(runFiles) = 3
  /\ thrown[1] # {}
  /\ task[2] = "success"
  /\ task[3] = "success"
  /\ Len(onErrorCalls) = 1

\* C2 (as claimed): while a conversion runs, processedCount is the number of
\* files that have reached success or error.
C2_CountsEveryTerminalFile ==
  RunInProgress =>
    processedCount = Cardinality({i \in DOMAIN task : task[i] \in {"success", "error"}})

\* C3 (as claimed): a step that moves files to processing is taken only with
\* the processing flag set.
C3_NoStartWhileFlagCleared ==
  [][(/\ pc' = "batch"
      /\ (pc # "batch" \/ batchIndex' # batchIndex)
      /\ \E i \in DOMAIN task' : task'[i] = "reading")
     => isProcessing']_vars

\* the latest conversion was paused when exactly two files had completed, and
\* resumed later
PausedAfterTwoThenResumed ==
  \E a, b \in DOMAIN RunLog :
    /\ a < b
    /\ RunLog[a].message.text = "resumed"
    /\ RunLog[b].message.text = "paused"
    /\ Cardinality({c \in LogTexts(RunLog, {"fileDone", "fileFailed"}) : c > b}) = 2

\* C4 (as claimed): a conversion over more than two files that was paused
\* after two completed files and resumed has processedCount equal to the
\* number of files when it returns, and no file went through decoding twice.
C4_PauseResumeReachesTotal ==
  (pc = "returned" /\ Len(runFiles) > 2 /\ PausedAfterTwoThenResumed) =>
    /\ processedCount = Len(runFiles)
    /\ \A i \in DOMAIN runFiles :
         Cardinality({p \in LogTexts(RunLog, {"progress"}) :
                        RunLog[p].message.a = i /\ RunLog[p].message.b = 50}) <= 1

\* C5: when a file of a batch has started, or the start of the batch has been
\* logged, every file of every earlier batch has settled, no merge of an
\* earlier batch is pending, and every earlier batch that had a success under
\* merging has had its merge called.
C5_BatchBarrier ==
  LET startedBatches ==
        {BatchNo(i) : i \in {j \in DOMAIN task : task[j] # "waiting"}}
        \cup {RunLog[p].message.a - 1 : p \in LogTexts(RunLog, {"batchStart"})} IN
  RunInProgress =>
    \A k \in startedBatches :
      /\ pc = "merge" => k <= batchIndex
      /\ \A j \in DOMAIN task :
           BatchNo(j) < k =>
             /\ Settled(task[j])
             /\ (runOptions.mergePdf /\ task[j] = "success") =>
                  \E m \in DOMAIN mergeCalls :
                    /\ mergeCalls[m].kind = "batch"
                    /\ mergeCalls[m].batch = BatchNo(j)

C5_Witness ==
  /\ pc = "batch"
  /\ batchIndex = 1
  /\ runOptions.mergePdf
  /\ task[3] = "converting"
  /\ task[1] = "success"
  /\ task[2] = "error"

\* C6 (as claimed): the number of files in flight never exceeds the cap.
C6_InFlightWithinCap ==
  Cardinality({i \in DOMAIN task : InFlight(task[i])}) <= ConcurrencyPerBatch

\* C7 (as claimed): while and after a conversion, the store entry of each file
\* of the run is pending before its pipeline starts, processing while it is in
\* flight, and afterwards success, or error with the thrown message.
C7_EntryLifecycle ==
  (RunInProgress \/ RunReturned) =>
    \A i \in DOMAIN task : \A j \in DOMAIN files :
      files[j].file = runFiles[i] =>
        /\ task[i] = "waiting" => files[j].status = "pending"
        /\ InFlight(task[i]) => files[j].status = "processing"
        /\ task[i] = "success" => files[j].status = "success"
        /\ task[i] = "error" =>
             (files[j].status = "error" /\ files[j].error = thrown[i])

\* C8 (as claimed): in every merged document handed to the caller the pages
\* follow the order of the input file list.
C8_MergedInInputOrder ==
  \A c \in DOMAIN onBatchCompleteCalls :
    LET d == onBatchCompleteCalls[c] IN
    \A p, q \in DOMAIN d :
      p < q =>
        \/ RunIndexOf(d[p].src) < RunIndexOf(d[q].src)
        \/ (d[p].src = d[q].src /\ d[p].page < d[q].page)

\* no file and no merge of the latest conversion has failed
NoFailures ==
  /\ \A i \in DOMAIN thrown : thrown[i] = {}
  /\ \A p \in DOMAIN RunLog : RunLog[p].level # "error"

C10_BatchMergeInput ==
  LET n == Len(runFiles)
      succeeded(k) == {i \in BatchOf(k, n) : task[i] = "success"}
      callsOf(k) == {m \in DOMAIN mergeCalls :
                       mergeCalls[m].kind = "batch" /\ mergeCalls[m].batch = k} IN
  /\ \A m \in DOMAIN mergeCalls :
       mergeCalls[m].kind = "batch" =>
         LET input == mergeCalls[m].input IN
         /\ input # <<>>
         /\ {input[x] : x \in DOMAIN input}
              = {PdfOf(runFiles[i]) : i \in succeeded(mergeCalls[m].batch)}
         /\ Len(input) = Cardinality(succeeded(mergeCalls[m].batch))
  /\ (RunInProgress /\ runOptions.mergePdf) =>
       \A k \in 0..(NumBatches(n) - 1) :
         (k < batchIndex \/ (k = batchIndex /\ pc = "merge")) =>
           Cardinality(callsOf(k)) = (IF succeeded(k) = {} THEN 0 ELSE 1)

C10_Witness ==
  /\ pc = "returned"
  /\ runOptions.mergePdf
  /\ Len(runFiles) = 3
  /\ task[1] = "error"
  /\ task[2] = "success"
  /\ task[3] = "success"
  /\ Len(mergeCalls) >= 2
  /\ Len(mergeCalls[1].input) = 1

\* the error entries a failed merge step leaves in a log
MergeErrorEntries(lg) ==
  {p \in DOMAIN lg : /\ lg[p].level = "error"
                     /\ lg[p].message.text \in {"mergeFailed", "finalMergeFailed"}}

\* a step in which mergePdfs of a batch, or of all batches, has thrown
BatchMergeFailedStep == pc = "merge" /\ pc' # "merge" /\ allPdfData' = allPdfData
FinalMergeFailedStep ==
  /\ pc = "finalMerge"
  /\ pc' # "finalMerge"
  /\ onBatchCompleteCalls' = onBatchCompleteCalls

\* C11: a step in which a batch merge or the final merge fails adds one error
\* entry to the log, leaves processedCount and the onError calls as they
\* were, leaves every successfully converted file in success (and no entry of
\* the store in error that was not before), and the run goes on: after a
\* failed batch merge the next batch is started when one remains, otherwise
\* the call goes to its final merge or returns; after a failed final merge
\* the call returns.
C11_MergeFailureContained ==
  [][(BatchMergeFailedStep \/ FinalMergeFailedStep) =>
       /\ Cardinality(MergeErrorEntries(logs')) =
            Cardinality(MergeErrorEntries(logs)) + 1
       /\ processedCount' = processedCount
       /\ onErrorCalls' = onErrorCalls
       /\ \A i \in DOMAIN task : task[i] = "success" => task'[i] = "success"
       /\ \A j \in DOMAIN files :
            files'[j].status = "error" => files[j].status = "error"
       /\ BatchMergeFailedStep =>
            /\ batchIndex' = batchIndex + 1
            /\ IF batchIndex + 1 < NumBatches(Len(runFiles))
                 THEN /\ pc' = "batch"
                      /\ \A i \in BatchOf(batchIndex + 1, Len(runFiles)) :
                           task'[i] \in {"reading", "skipped"}
                 ELSE pc' \in {"finalMerge", "returned"}
       /\ FinalMergeFailedStep => pc' = "returned"]_vars

\* the merge of the first batch failed, both of its files stay in success
\* without an onError call, and the second batch was converted afterwards
C11_Witness ==
  /\ pc = "returned"
  /\ Len(runFiles) = 3
  /\ \E p \in MergeErrorEntries(RunLog) :
       RunLog[p].message = Msg("mergeFailed", 1, 0)
  /\ \A i \in 1..3 : task[i] = "success"
  /\ onErrorCalls = <<>>
  /\ processedCount = 3

\* ------------------------------------------------ eml-parser: processNode
\* Header values and HTML are strings; the model writes a string as the
\* sequence of its tokens, so that includes() and === compare what the code
\* compares. A missing header is the empty sequence.
Includes(str, token) == \E p \in DOMAIN str : str[p] = token

\* the value of the Content-Disposition header of a leaf: its type, then its
\* filename parameter when it has one
ContentDispositionOf(leaf) ==
  IF leaf.dispType = "" THEN <<>>
  ELSE IF leaf.dispFilename = "" THEN <<leaf.dispType>>
  ELSE <<leaf.dispType, "; filename=", leaf.dispFilename>>

\* getFilenameFromHeaders: the filename parameter of Content-Disposition,
\* else the name parameter of Content-Type, else ''
GetFilenameFromHeaders(leaf) ==
  IF leaf.dispType # "" /\ leaf.dispFilename # "" THEN leaf.dispFilename
  ELSE IF leaf.typeName # "" THEN leaf.typeName
  ELSE ""

IsImageType(contentType) == contentType \in {"image/png", "image/gif"}

\* processNode on a leaf: which handler is called, and with what. The
\* Content-ID arrives with its angle brackets already removed; the file
\* names of the model hold no encoded-word, so decodeHeaderValue returns them
\* as they are.
ProcessLeaf(leaf) ==
  LET contentType == leaf.contentType
      contentDisposition == ContentDispositionOf(leaf)
      filename == GetFilenameFromHeaders(leaf)
      contentId == leaf.contentId
      isAttachment == Includes(contentDisposition, "attachment") \/ filename # "" IN
  IF isAttachment
    THEN [kind |-> "attachment",
          filename |-> IF filename # "" THEN filename ELSE "attachment-now",
          contentType |-> contentType, contentId |-> contentId,
          disposition |-> contentDisposition]
  ELSE IF contentType = "text/plain" THEN [kind |-> "textBody"]
  ELSE IF contentType = "text/html" THEN [kind |-> "htmlBody"]
  ELSE IF IsImageType(contentType) /\ contentId # <<>>
    THEN [kind |-> "attachment", filename |-> "image-cid",
          contentType |-> contentType, contentId |-> contentId,
          disposition |-> <<"inline">>]
  ELSE [kind |-> "none"]

\* processNode on a multipart node: its leaves in order; the attachment
\* handler pushes onto attachments
RECURSIVE ProcessNode(_)
ProcessNode(childNodes) ==
  IF childNodes = <<>> THEN <<>>
  ELSE LET r == ProcessLeaf(Head(childNodes)) IN
       (IF r.kind = "attachment" THEN <<r>> ELSE <<>>)
         \o ProcessNode(Tail(childNodes))

\* ------------------------------------- pdf-generator: inline-image resolution
\* new RegExp(`cid:${contentId}`): the Content-ID is read as a pattern, in
\* which + repeats the character before it; the pattern matches when it
\* matches a prefix of the reference
RECURSIVE RegExpMatches(_, _)
RegExpMatches(pattern, str) ==
  IF pattern = <<>> THEN TRUE
  ELSE IF Len(pattern) >= 2 /\ pattern[2] = "+"
    THEN /\ str # <<>>
         /\ str[1] = pattern[1]
         /\ \/ RegExpMatches(Tail(Tail(pattern)), Tail(str))
            \/ RegExpMatches(pattern, Tail(str))
  ELSE /\ str # <<>>
       /\ str[1] = pattern[1]
       /\ RegExpMatches(Tail(pattern), Tail(str))

\* att.contentId && att.disposition === 'inline'
IsInlineAttachment(att) == att.contentId # <<>> /\ att.disposition = <<"inline">>

\* processHtmlWithInlineImages from attachment k on: html is the list of the
\* cid: references of the body; a reference the pattern of an inline
\* attachment matches is replaced by the blob URL created for that attachment
RECURSIVE ProcessHtmlFrom(_, _, _)
ProcessHtmlFrom(html, attachments, k) ==
  IF k > Len(attachments) THEN html
  ELSE IF ~IsInlineAttachment(attachments[k])
    THEN ProcessHtmlFrom(html, attachments, k + 1)
  ELSE ProcessHtmlFrom(
         [r \in DOMAIN html |->
            IF html[r].scheme = "cid"
               /\ RegExpMatches(attachments[k].contentId, html[r].id)
              THEN [scheme |-> "blob", id |-> <<k>>]
              ELSE html[r]],
         attachments, k + 1)

ProcessHtmlWithInlineImages(html, attachments) ==
  ProcessHtmlFrom(html, attachments, 1)

\* the blob URLs URL.createObjectURL hands out during that call: one per
\* inline attachment, referenced or not
BlobUrlsCreated(attachments) ==
  {k \in DOMAIN attachments : IsInlineAttachment(attachments[k])}

\* --------------------------------------- pdf-generator: convertEmailToPdf
\* lengths on the text pages are in twentieths of a point, which makes
\* fontSize * 1.5 * 1.5 a whole number
Pt(n) == 20 * n
LineHeightHeader == 330     \* fontSize * 1.5 with fontSize = 11
LineHeightText == 264       \* fontSize * 1.2 with fontSize = 11

CeilDiv(a, b) == (a + b - 1) \div b
Min(a, b) == IF a < b THEN a ELSE b

\* addHeaderPage: the first page, and a page more whenever one of the
\* important headers finds yPos below the margin (Subject, From, To, CC, Date
\* and the attachment count are all drawn)
RECURSIVE HeaderPagesFrom(_, _, _)
HeaderPagesFrom(headersLeft, yPos, pages) ==
  IF headersLeft = 0 THEN pages
  ELSE LET y == yPos - LineHeightHeader IN
       IF y < Pt(PageMargin)
         THEN HeaderPagesFrom(headersLeft - 1,
                              Pt(PageHeight) - Pt(PageMargin) - 2 * LineHeightHeader,
                              pages + 1)
         ELSE HeaderPagesFrom(headersLeft - 1, y, pages)

HeaderPages(email) ==
  LET yPos == Pt(PageHeight) - Pt(PageMargin) - Pt(50) - 5 * 2 * LineHeightHeader IN
  IF email.importantHeaders = 0 THEN 1
  ELSE HeaderPagesFrom(email.importantHeaders,
                       yPos - 2 * LineHeightHeader - LineHeightHeader, 1)

\* addTextPage: the first page, and a page more whenever a line of textBody
\* finds yPos below the margin (every line fits the page width)
RECURSIVE TextPagesFrom(_, _, _)
TextPagesFrom(linesLeft, yPos, pages) ==
  IF linesLeft = 0 THEN pages
  ELSE IF yPos < Pt(PageMargin)
    THEN TextPagesFrom(linesLeft - 1,
                       Pt(PageHeight) - Pt(PageMargin) - LineHeightText, pages + 1)
    ELSE TextPagesFrom(linesLeft - 1, yPos - LineHeightText, pages)

TextPages(email) ==
  TextPagesFrom(email.textLines, Pt(PageHeight) - Pt(PageMargin) - Pt(50), 1)

\* addAttachmentsPage: the first page, and a page more whenever an
\* attachment finds less than four lines above the margin
RECURSIVE AttachmentsPagesFrom(_, _, _, _)
AttachmentsPagesFrom(attachments, i, yPos, pages) ==
  IF i > Len(attachments) THEN pages
  ELSE LET fresh == yPos < Pt(PageMargin) + 4 * LineHeightHeader
           y == IF fresh THEN Pt(PageHeight) - Pt(PageMargin) - Pt(50) ELSE yPos
           used == 2 * LineHeightHeader
                     + (IF attachments[i].contentId # <<>> THEN LineHeightHeader ELSE 0)
                     + (3 * LineHeightHeader) \div 2 IN
       AttachmentsPagesFrom(attachments, i + 1, y - used,
                            IF fresh THEN pages + 1 ELSE pages)

AttachmentsPages(email) ==
  AttachmentsPagesFrom(email.attachments, 1,
                       Pt(PageHeight) - Pt(PageMargin) - Pt(50), 1)

\* addHtmlPage: scale = Math.min(availableWidth / imageWidth,
\* availableHeight / imageHeight), as a fraction
AvailableWidth == PageWidth - PageMargin * 2
AvailableHeight == PageHeight - PageMargin * 2
ScaleOf(image) ==
  IF AvailableWidth * image.height <= AvailableHeight * image.width
    THEN [num |-> AvailableWidth, den |-> image.width]
    ELSE [num |-> AvailableHeight, den |-> image.height]

\* pagesNeeded = Math.ceil(imageHeight / (availableHeight / scale))
PagesNeeded(image) ==
  LET scale == ScaleOf(image) IN
  CeilDiv(image.height * scale.num, AvailableHeight * scale.den)

\* the body pages of addHtmlPage: page i + 1 shows the rows of the image from
\* yOffset on, partHeight of them; both are fractions over scale.num
HtmlBodyPages(image) ==
  LET scale == ScaleOf(image)
      band == AvailableHeight * scale.den IN
  [p \in 1..PagesNeeded(image) |->
     [stage |-> "body", den |-> scale.num,
      yOffset |-> (p - 1) * band,
      partHeight |-> Min(band, image.height * scale.num - (p - 1) * band)]]

StagePages(stage, n) ==
  [p \in 1..n |-> [stage |-> stage, den |-> 1, yOffset |-> 0, partHeight |-> 0]]

\* the MIME leaves the emails of the model are made of
LeavesWith(contentTypes, contentIds) ==
  {l \in [contentType : contentTypes, dispType : {"", "attachment", "inline"},
          dispFilename : {"", "f.png"}, typeName : {"", "n.png"},
          contentId : contentIds] :
     l.dispType = "" => l.dispFilename = ""}

AttachmentsOf(leaves) ==
  {ProcessLeaf(l) : l \in {m \in leaves : ProcessLeaf(m).kind = "attachment"}}

\* the attachments of the emails handed to convertEmailToPdf: what
\* processNode makes of an image part or a file part
ComposeAttachments ==
  AttachmentsOf(LeavesWith({"image/png", "application/pdf"}, {<<>>, <<"a">>}))

\* the canvases html2canvas returns, in pixels: the container is 800px wide
\* with 20px of padding and is drawn at scale 1.5; its height is that of the
\* content
Images == [width : {1260}, height : {60, 1888, 1889, 3000, 6000}]
TextLineCounts == {1, 60}

ComposeInit ==
  /\ AppInit
  /\ MergeIdle
  /\ WrapIdle
  /\ DecodeIdle
  /\ HeaderIdle
  /\ TextIdle
  /\ AttachIdle
  /\ WorkerIdle
  /\ LogIdle
  /\ cpPc = "called"
  /\ cpEmail \in [hasHtml : BOOLEAN, textLines : TextLineCounts,
                  importantHeaders : {0, 6},
                  attachments : SeqsUpTo(ComposeAttachments, MaxAttachments)]
  /\ cpPages = <<>>
  /\ cpContainer = FALSE
  /\ cpBlobUrls = {}
  /\ cpRaster = "none"
  /\ cpImage = [width |-> 0, height |-> 0]

\* variant: addAttachmentsPage is called for every email
NeedAttachmentsPageAlways(email) == TRUE

\* if (email.attachments.length > 0)
NeedAttachmentsPage(email) == Len(email.attachments) > 0

\* PDFDocument.create, the fonts and addHeaderPage
AddHeaderPage ==
  /\ cpPc = "called"
  /\ cpPages' = StagePages("header", HeaderPages(cpEmail))
  /\ cpPc' = "header"
  /\ UNCHANGED <<cpEmail, cpContainer, cpBlobUrls, cpRaster, cpImage>>
  /\ UNCHANGED outsideCompose

\* addHtmlPage up to the await of html2canvas: the container is created,
\* filled by processHtmlWithInlineImages and appended to document.body
AddHtmlPageStart ==
  /\ cpPc = "header"
  /\ cpEmail.hasHtml
  /\ cpBlobUrls' = cpBlobUrls \cup BlobUrlsCreated(cpEmail.attachments)
  /\ cpContainer' = TRUE
  /\ cpPc' = "rasterizing"
  /\ UNCHANGED <<cpEmail, cpPages, cpRaster, cpImage>>
  /\ UNCHANGED outsideCompose

\* html2canvas has resolved: the pages of the image, then the finally block
RasterDone(image) ==
  /\ cpPc = "rasterizing"
  /\ cpRaster' = "ok"
  /\ cpImage' = image
  /\ cpPages' = cpPages \o HtmlBodyPages(image)
  /\ cpContainer' = FALSE
  /\ cpPc' = "body"
  /\ UNCHANGED <<cpEmail, cpBlobUrls>>
  /\ UNCHANGED outsideCompose

\* html2canvas has rejected: the finally block, and the error leaves
\* addHtmlPage and convertEmailToPdf, neither of which catches it
RasterFailed ==
  /\ cpPc = "rasterizing"
  /\ cpRaster' = "failed"
  /\ cpContainer' = FALSE
  /\ cpPc' = "threw"
  /\ UNCHANGED <<cpEmail, cpPages, cpBlobUrls, cpImage>>
  /\ UNCHANGED outsideCompose

\* addTextPage, when email.htmlBody is null or ''
AddTextPage ==
  /\ cpPc = "header"
  /\ ~cpEmail.hasHtml
  /\ cpPages' = cpPages \o StagePages("body", TextPages(cpEmail))
  /\ cpPc' = "body"
  /\ UNCHANGED <<cpEmail, cpContainer, cpBlobUrls, cpRaster, cpImage>>
  /\ UNCHANGED outsideCompose

AddAttachmentsPage ==
  /\ cpPc = "body"
  /\ NeedAttachmentsPage(cpEmail)
  /\ cpPages' = cpPages \o StagePages("attachments", AttachmentsPages(cpEmail))
  /\ cpPc' = "attachments"
  /\ UNCHANGED <<cpEmail, cpContainer, cpBlobUrls, cpRaster, cpImage>>
  /\ UNCHANGED outsideCompose

\* pdfDoc.save() and the return
SavePdf ==
  /\ \/ cpPc = "body" /\ ~NeedAttachmentsPage(cpEmail)
     \/ cpPc = "attachments"
  /\ cpPc' = "returned"
  /\ UNCHANGED <<cpEmail, cpPages, cpContainer, cpBlobUrls, cpRaster, cpImage>>
  /\ UNCHANGED outsideCompose

ComposeNext ==
  \/ AddHeaderPage
  \/ AddHtmlPageStart
  \/ \E image \in Images : RasterDone(image)
  \/ RasterFailed
  \/ AddTextPage
  \/ AddAttachmentsPage
  \/ SavePdf

ComposeSpec == ComposeInit /\ [][ComposeNext]_vars

\* ------------------------------------------ pdf-generator: wrapText alone
\* the characters of the model and their widths at the font size in use
Chars == {"a", " ", "W", "\n"}
CharWidth(char) == IF char = "W" THEN 3 ELSE 1

\* text.split('\n') from character k on, cur being the piece under way
RECURSIVE SplitFrom(_, _, _)
SplitFrom(text, k, cur) ==
  IF k > Len(text) THEN <<cur>>
  ELSE IF text[k] = "\n" THEN <<cur>> \o SplitFrom(text, k + 1, <<>>)
  ELSE SplitFrom(text, k + 1, Append(cur, text[k]))

\* !paragraph.trim()
IsBlank(paragraph) == \A p \in DOMAIN paragraph : paragraph[p] = " "

\* lines.push(line); the model keeps the first MaxLinesKept lines, which is
\* more than a call that returns can push
MaxLinesKept == MaxTextLen + 2
Push(lines, line) == IF Len(lines) < MaxLinesKept THEN Append(lines, line) ELSE lines

WrapInit ==
  /\ AppInit
  /\ MergeIdle
  /\ ComposeIdle
  /\ DecodeIdle
  /\ HeaderIdle
  /\ TextIdle
  /\ AttachIdle
  /\ WorkerIdle
  /\ LogIdle
  /\ wtPc = "called"
  /\ wtText \in SeqsUpTo(Chars, MaxTextLen)
  /\ wtMaxWidth \in 1..MaxLineWidth
  /\ wtParagraphs = <<>>
  /\ wtP = 0
  /\ wtI = 0
  /\ wtCurrentLine = <<>>
  /\ wtCurrentWidth = 0
  /\ wtStart = 0
  /\ wtLines = <<>>

\* if (!text) return []; otherwise the split into paragraphs
WrapCall ==
  /\ wtPc = "called"
  /\ IF wtText = <<>>
       THEN wtPc' = "returned" /\ UNCHANGED <<wtParagraphs, wtP>>
       ELSE /\ wtParagraphs' = SplitFrom(wtText, 1, <<>>)
            /\ wtP' = 1
            /\ wtPc' = "paragraph"
  /\ UNCHANGED <<wtText, wtMaxWidth, wtI, wtCurrentLine, wtCurrentWidth, wtStart,
                 wtLines, outsideWrap>>

\* the head of the loop over paragraphs: a blank paragraph gives an empty
\* line, another one starts the loop over its characters
NextParagraph ==
  /\ wtPc = "paragraph"
  /\ wtP <= Len(wtParagraphs)
  /\ IF IsBlank(wtParagraphs[wtP])
       THEN /\ wtLines' = Push(wtLines, <<>>)
            /\ wtP' = wtP + 1
            /\ UNCHANGED <<wtPc, wtI, wtCurrentLine, wtCurrentWidth, wtStart>>
       ELSE /\ wtI' = 0
            /\ wtCurrentLine' = <<>>
            /\ wtCurrentWidth' = 0
            /\ wtStart' = 0
            /\ wtPc' = "chars"
            /\ UNCHANGED <<wtLines, wtP>>
  /\ UNCHANGED <<wtText, wtMaxWidth, wtParagraphs, outsideWrap>>

\* one iteration of the loop over the characters, with its i++
WrapStep ==
  /\ wtPc = "chars"
  /\ wtI < Len(wtParagraphs[wtP])
  /\ LET char == wtParagraphs[wtP][wtI + 1]
         charWidth == CharWidth(char) IN
     IF wtCurrentWidth + charWidth > wtMaxWidth
       THEN IF wtCurrentLine # <<>>
              THEN /\ wtLines' = Push(wtLines, wtCurrentLine)
                   /\ wtCurrentLine' = <<>>
                   /\ wtCurrentWidth' = 0
                   /\ wtI' = (wtStart - 1) + 1
                   /\ UNCHANGED wtStart
              ELSE /\ wtLines' = Push(wtLines, <<char>>)
                   /\ wtStart' = wtI + 1
                   /\ wtI' = wtI + 1
                   /\ UNCHANGED <<wtCurrentLine, wtCurrentWidth>>
       ELSE /\ wtCurrentLine' = Append(wtCurrentLine, char)
            /\ wtCurrentWidth' = wtCurrentWidth + charWidth
            /\ wtStart' = IF char = " " THEN wtI + 1 ELSE wtStart
            /\ wtI' = wtI + 1
            /\ UNCHANGED wtLines
  /\ UNCHANGED <<wtPc, wtText, wtMaxWidth, wtParagraphs, wtP, outsideWrap>>

\* the loop over the characters has ended: the rest of the line is pushed
ParagraphEnd ==
  /\ wtPc = "chars"
  /\ wtI >= Len(wtParagraphs[wtP])
  /\ wtLines' = IF wtCurrentLine # <<>> THEN Push(wtLines, wtCurrentLine)
                ELSE wtLines
  /\ wtP' = wtP + 1
  /\ wtPc' = "paragraph"
  /\ UNCHANGED <<wtText, wtMaxWidth, wtParagraphs, wtI, wtCurrentLine,
                 wtCurrentWidth, wtStart, outsideWrap>>

\* return lines
WrapReturn ==
  /\ wtPc = "paragraph"
  /\ wtP > Len(wtParagraphs)
  /\ wtPc' = "returned"
  /\ UNCHANGED <<wtText, wtMaxWidth, wtParagraphs, wtP, wtI, wtCurrentLine,
                 wtCurrentWidth, wtStart, wtLines, outsideWrap>>

WrapNext ==
  \/ WrapCall
  \/ NextParagraph
  \/ WrapStep
  \/ ParagraphEnd
  \/ WrapReturn

\* wrapText is synchronous code: while it has a step to take, it takes it
WrapSpec == WrapInit /\ [][WrapNext]_vars /\ WF_vars(WrapNext)

\* ------------------------------ decoding a message and resolving its images
\* the Content-IDs of the model, as character sequences
ContentIds == {<<"a">>, <<"a", "b">>, <<"a", "+", "b">>}

\* the parts a message is made of besides its HTML part: images and files,
\* with every combination of Content-Disposition, filename and Content-ID
DecodeLeaves ==
  LeavesWith({"image/png", "application/pdf"}, {<<>>} \cup ContentIds)

DecodeInit ==
  /\ AppInit
  /\ MergeIdle
  /\ ComposeIdle
  /\ WrapIdle
  /\ HeaderIdle
  /\ TextIdle
  /\ AttachIdle
  /\ WorkerIdle
  /\ LogIdle
  /\ dcPc = "called"
  /\ dcChildNodes \in SeqsUpTo(DecodeLeaves, MaxLeaves)
  /\ dcHtmlBody \in SeqsUpTo([scheme : {"cid"}, id : ContentIds], MaxRefs)
  /\ dcAttachments = <<>>
  /\ dcProcessedHtml = <<>>

\* parseEmlContent: processNode over the parts; the HTML part goes to
\* htmlBody, the attachment handler collects the attachments
ParseEmlContent ==
  /\ dcPc = "called"
  /\ dcAttachments' = ProcessNode(dcChildNodes)
  /\ dcPc' = "parsed"
  /\ UNCHANGED <<dcChildNodes, dcHtmlBody, dcProcessedHtml, outsideDecode>>

\* addHtmlPage: processHtmlWithInlineImages(htmlContent, email.attachments)
ResolveInlineImages ==
  /\ dcPc = "parsed"
  /\ dcProcessedHtml' = ProcessHtmlWithInlineImages(dcHtmlBody, dcAttachments)
  /\ dcPc' = "resolved"
  /\ UNCHANGED <<dcChildNodes, dcHtmlBody, dcAttachments, outsideDecode>>

DecodeNext ==
  \/ ParseEmlContent
  \/ ResolveInlineImages

DecodeSpec == DecodeInit /\ [][DecodeNext]_vars

\* ------------------------------------------------------ mergePdfs alone
\* a well-formed document of n pages made from source src
Doc(src, n) == [j \in 1..n |-> [src |-> src, page |-> j]]
MergeSources == {"A", "B"}
Docs == {Doc(src, n) : src \in MergeSources, n \in 1..MaxPages}

\* a caller holds an ordered list of documents and is about to call mergePdfs
MergeInit ==
  /\ AppInit
  /\ ComposeIdle
  /\ WrapIdle
  /\ DecodeIdle
  /\ HeaderIdle
  /\ TextIdle
  /\ AttachIdle
  /\ WorkerIdle
  /\ LogIdle
  /\ mgBuffers \in SeqsUpTo(Docs, MaxDocs)
  /\ mgPc = "called"
  /\ mgResult = <<>>

\* the call of mergePdfs runs to its return
MergeCall ==
  /\ mgPc = "called"
  /\ mgResult' = MergePdfs(mgBuffers)
  /\ mgPc' = "saved"
  /\ UNCHANGED <<mgBuffers, outsideMerge>>

MergeNext == MergeCall

MergeSpec == MergeInit /\ [][MergeNext]_vars

\* the number of pages of the first k documents of a list
RECURSIVE PagesBefore(_, _)
PagesBefore(bufs, k) ==
  IF k = 0 THEN 0 ELSE PagesBefore(bufs, k - 1) + Len(bufs[k])

\* C12: the document mergePdfs returns has as many pages as its inputs have
\* together, and page j of input k is page (pages of inputs 1..k-1) + j of
\* the output: the inputs' pages in input order, each input's pages in their
\* own order.
C12_MergeConcatenates ==
  mgPc = "saved" =>
    /\ Len(mgResult) = PagesBefore(mgBuffers, Len(mgBuffers))
    /\ \A k \in DOMAIN mgBuffers : \A j \in DOMAIN mgBuffers[k] :
         mgResult[PagesBefore(mgBuffers, k - 1) + j] = mgBuffers[k][j]

\* a document of 3 pages and one of 5 pages were merged into 8 pages
C12_Witness ==
  /\ mgPc = "saved"
  /\ mgBuffers = <<Doc("A", 3), Doc("B", 5)>>
  /\ Len(mgResult) = 8
  /\ mgResult[3].src = "A"
  /\ mgResult[4] = [src |-> "B", page |-> 1]

\* ------------------------------------------- properties of convertEmailToPdf
PagesOfStage(stage) == {p \in DOMAIN cpPages : cpPages[p].stage = stage}

\* C13: when rasterizing the HTML body has failed, convertEmailToPdf does not
\* throw: it goes on with a body rendered from textBody, as many body pages
\* as addTextPage makes of it, and returns the document.
C13_RasterFailureFallsBack ==
  cpRaster = "failed" =>
    /\ cpPc \in {"body", "attachments", "returned"}
    /\ Cardinality(PagesOfStage("body")) = TextPages(cpEmail)

\* C14: when convertEmailToPdf has returned or thrown, the container is no
\* longer in the document and no blob URL created for an inline image is
\* still alive.
C14_TransientResourcesReleased ==
  cpPc \in {"returned", "threw"} => ~cpContainer /\ cpBlobUrls = {}

\* ----------------------------------------------------- properties of wrapText
RECURSIVE Flatten(_)
Flatten(lines) == IF lines = <<>> THEN <<>> ELSE Head(lines) \o Flatten(Tail(lines))

\* C15: for a non-empty text and a positive maxWidth, wrapText returns, and
\* returns at least one line.
C15_WrapTextTerminates ==
  wtText # <<>> => <>(wtPc = "returned" /\ Len(wtLines) >= 1)

\* C16: in a text of one paragraph, every glyph is in exactly one returned
\* line and the lines follow the text: put end to end, the lines are the
\* paragraph (a line that overflowed ends at its last word boundary and the
\* next line starts with the glyph after it).
C16_EveryGlyphOnce ==
  (wtPc = "returned" /\ Len(wtParagraphs) = 1 /\ ~IsBlank(wtParagraphs[1])) =>
    Flatten(wtLines) = wtParagraphs[1]

\* the body pages of the document, in order
BodyPages == SelectSeq(cpPages, LAMBDA pg : pg.stage = "body")

\* C17: when the image, scaled to the width of the content box, is taller than
\* the content box, addHtmlPage adds one body page per band of the height of
\* the content box: as many pages as bands are needed to cover the image,
\* band k starting where band k - 1 ended, every band but the last of full
\* height, and the bands together covering the image.
C17_OnePagePerBand ==
  (cpRaster = "ok"
     /\ AvailableWidth * cpImage.height > AvailableHeight * cpImage.width) =>
    LET bands == CeilDiv(cpImage.height * AvailableWidth,
                         AvailableHeight * cpImage.width)
        n == Len(BodyPages) IN
    /\ n = bands
    /\ \A k \in 1..n :
         /\ BodyPages[k].yOffset * AvailableWidth =
              (k - 1) * AvailableHeight * cpImage.width * BodyPages[k].den
         /\ k < n => BodyPages[k].partHeight * AvailableWidth =
                       AvailableHeight * cpImage.width * BodyPages[k].den
         /\ k = n => BodyPages[k].yOffset + BodyPages[k].partHeight =
                       cpImage.height * BodyPages[k].den

StageRank(stage) ==
  CASE stage = "header" -> 1 [] stage = "body" -> 2 [] stage = "attachments" -> 3

\* C18: the pages of the document are added stage by stage, header, then
\* body, then attachment listing, never a page of an earlier stage after one
\* of a later stage; the document convertEmailToPdf returns starts with the
\* header page, has at least one body page, and has attachment-listing pages
\* exactly when the email has an attachment.
C18_StagesInOrder ==
  /\ \A p, q \in DOMAIN cpPages :
       p < q => StageRank(cpPages[p].stage) <= StageRank(cpPages[q].stage)
  /\ cpPc = "returned" =>
       /\ PagesOfStage("header") = {1}
       /\ PagesOfStage("body") # {}
       /\ PagesOfStage("attachments") # {} <=> Len(cpEmail.attachments) > 0

\* a document of an HTML email with two attachments was returned: header
\* page, body page, attachment-listing page
C18_Witness ==
  /\ cpPc = "returned"
  /\ cpEmail.hasHtml
  /\ Len(cpEmail.attachments) = 2
  /\ [p \in DOMAIN cpPages |-> cpPages[p].stage] = <<"header", "body", "attachments">>

\* ------------------------------------------------- properties of the decoder
\* C19: after inline-image resolution no reference cid:X is left in the HTML
\* for which the decoded attachments hold an image with contentId X,
\* whatever Content-Disposition and filename headers the image part had.
C19_NoCidLeftForDecodedImage ==
  dcPc = "resolved" =>
    \A r \in DOMAIN dcHtmlBody :
      (\E k \in DOMAIN dcAttachments :
         /\ IsImageType(dcAttachments[k].contentType)
         /\ dcAttachments[k].contentId = dcHtmlBody[r].id)
        => dcProcessedHtml[r].scheme # "cid"

\* the leaves of the message that processNode hands to the attachment
\* handler, in order: leaf k of them made attachment k
AttachmentLeaves ==
  SelectSeq(dcChildNodes, LAMBDA leaf : ProcessLeaf(leaf).kind = "attachment")

\* C20: the disposition of every decoded attachment is exactly "inline" or
\* exactly "attachment"; it is "attachment" for a leaf whose
\* Content-Disposition contains "attachment" or that has a file name, and
\* "inline" for any other image leaf with a Content-ID.
C20_DispositionIsCanonical ==
  dcPc # "called" =>
    \A k \in DOMAIN dcAttachments :
      LET leaf == AttachmentLeaves[k]
          named == \/ Includes(ContentDispositionOf(leaf), "attachment")
                   \/ GetFilenameFromHeaders(leaf) # "" IN
      /\ dcAttachments[k].disposition \in {<<"inline">>, <<"attachment">>}
      /\ named => dcAttachments[k].disposition = <<"attachment">>
      /\ (~named /\ IsImageType(leaf.contentType) /\ leaf.contentId # <<>>)
           => dcAttachments[k].disposition = <<"inline">>

\* ------------------------------------------- eml-parser: decodeHeaderValue
\* A header value is a sequence of pieces: runs of plain text and RFC 2047
\* encoded-words =?charset?encoding?text?=. The text of a word is one of
\* three payloads: one that decodes, one that is not valid base64 (atob
\* throws), one whose bytes are not UTF-8 (decodeURIComponent throws).
Payloads == {"good", "badB64", "notUtf8"}
Plain(text) == [kind |-> "plain", charset |-> "", encoding |-> "", text |-> <<text>>]
EncodedWord(charset, encoding, text) ==
  [kind |-> "word", charset |-> charset, encoding |-> encoding, text |-> <<text>>]
HeaderPieces ==
  {Plain("x")} \cup {EncodedWord("utf-8", e, t) : e \in {"B", "Q", "b"}, t \in Payloads}

\* /=\?([^?]+)\?([BQ])\?([^?]+)\?=/g: the words the pattern matches
MatchesEncodedWord(piece) == piece.kind = "word" /\ piece.encoding \in {"B", "Q"}

\* the body of the try block: atob or decodeQuotedPrintable, then
\* decodeURIComponent(escape(...)); it returns the decoded text or throws
TryDecodeWord(piece) ==
  LET text == piece.text[1]
      throws == \/ piece.encoding = "B" /\ text = "badB64"
                \/ text = "notUtf8" IN
  IF throws THEN [kind |-> "thrown", charset |-> "", encoding |-> "", text |-> <<text>>]
  ELSE [kind |-> "plain", charset |-> "", encoding |-> "",
        text |-> <<"decoded", piece.encoding, text>>]

\* variant: the callback has no try/catch
ReplaceWordUncaught(piece) == TryDecodeWord(piece)

\* the replace callback: the decoded text, or, when the try block threw,
\* console.error and return text
ReplaceWord(piece) ==
  LET r == TryDecodeWord(piece) IN
  IF r.kind = "thrown"
    THEN [kind |-> "plain", charset |-> "", encoding |-> "", text |-> piece.text]
    ELSE r

\* value.replace(pattern, callback): the pieces the pattern does not match
\* stay as they are
DecodeHeaderValue(value) ==
  [k \in DOMAIN value |->
     IF MatchesEncodedWord(value[k]) THEN ReplaceWord(value[k]) ELSE value[k]]

HeaderInit ==
  /\ AppInit
  /\ MergeIdle
  /\ ComposeIdle
  /\ WrapIdle
  /\ DecodeIdle
  /\ TextIdle
  /\ AttachIdle
  /\ WorkerIdle
  /\ LogIdle
  /\ hvPc = "called"
  /\ hvValue \in SeqsUpTo(HeaderPieces, MaxPieces)
  /\ hvResult = <<>>

\* the call runs to its end: it returns the replaced string, unless an
\* exception has left the replace callback
DecodeHeaderCall ==
  /\ hvPc = "called"
  /\ LET replaced == DecodeHeaderValue(hvValue) IN
     IF \E k \in DOMAIN replaced : replaced[k].kind = "thrown"
       THEN hvPc' = "threw" /\ UNCHANGED hvResult
       ELSE hvPc' = "returned" /\ hvResult' = replaced
  /\ UNCHANGED <<hvValue, outsideHeader>>

HeaderNext == DecodeHeaderCall

HeaderSpec == HeaderInit /\ [][HeaderNext]_vars

\* ------------------------------------------- properties of decodeHeaderValue
\* the encoded-words of the value the try block cannot decode
Undecodable(piece) == MatchesEncodedWord(piece) /\ TryDecodeWord(piece).kind = "thrown"
Decodable(piece) == MatchesEncodedWord(piece) /\ TryDecodeWord(piece).kind # "thrown"

\* C21 as stated: decodeHeaderValue does not throw, an encoded-word that
\* cannot be decoded is in the output as the whole token it was, and every
\* other encoded-word of the value is decoded.
C21_UndecodableWordKeptWhole ==
  /\ hvPc # "threw"
  /\ hvPc = "returned" =>
       \A k \in DOMAIN hvValue :
         /\ Undecodable(hvValue[k]) => hvResult[k] = hvValue[k]
         /\ Decodable(hvValue[k]) => hvResult[k].text = <<"decoded", hvValue[k].encoding,
                                                          hvValue[k].text[1]>>

\* C21 amended: decodeHeaderValue does not throw; of an encoded-word with
\* encoding B or Q that cannot be decoded, the output holds the encoded text
\* alone, without the =?charset?encoding? and ?= around it; every other such
\* word of the value is decoded, and everything else is left as it is.
C21_UndecodableWordKeepsText ==
  /\ hvPc # "threw"
  /\ hvPc = "returned" =>
       /\ Len(hvResult) = Len(hvValue)
       /\ \A k \in DOMAIN hvValue :
            /\ Undecodable(hvValue[k]) =>
                 /\ hvResult[k].kind = "plain"
                 /\ hvResult[k].text = hvValue[k].text
            /\ Decodable(hvValue[k]) =>
                 hvResult[k].text = <<"decoded", hvValue[k].encoding, hvValue[k].text[1]>>
            /\ ~MatchesEncodedWord(hvValue[k]) => hvResult[k] = hvValue[k]

\* a value with a word that is not valid base64 between two words that
\* decode has been returned
C21_Witness ==
  /\ hvPc = "returned"
  /\ hvValue = <<EncodedWord("utf-8", "Q", "good"), EncodedWord("utf-8", "B", "badB64"),
                 EncodedWord("utf-8", "B", "good")>>
  /\ hvResult[2].text = <<"badB64">>
  /\ hvResult[3].text = <<"decoded", "B", "good">>

\* C22: at every moment of a run, whatever the interleaving of file
\* completions with addFiles, removeFile, clearFiles and stopProcessing,
\* 0 <= processedCount <= totalCount
C22_ProcessedWithinTotal ==
  RunInProgress => (0 <= processedCount /\ processedCount <= totalCount)

OnCompleteCallsFor(i) ==
  {p \in DOMAIN onCompleteCalls : onCompleteCalls[p].fileId = runFiles[i]}

\* C23: with merging enabled no file of the run gets an onComplete call or a
\* print of its own, and each successful file's output is in the buffer of its
\* batch until the batch is joined; with merging disabled onComplete is called
\* exactly once for each successful file, with that file's bytes, and
\* onBatchComplete is never called
C23_PerFileOutputOnlyWithoutMerge ==
  runs > 0 =>
    IF runOptions.mergePdf
      THEN /\ onCompleteCalls = <<>>
           /\ \A p \in DOMAIN printed : printed[p].kind # "file"
           /\ pc = "batch" =>
                \A i \in BatchOf(batchIndex, Len(runFiles)) :
                  task[i] = "success" =>
                    \E q \in DOMAIN batchPdfData : batchPdfData[q] = PdfOf(runFiles[i])
      ELSE /\ onBatchCompleteCalls = <<>>
           /\ batchPdfData = <<>>
           /\ \A i \in DOMAIN task :
                /\ Cardinality(OnCompleteCallsFor(i))
                     = (IF task[i] = "success" THEN 1 ELSE 0)
                /\ \A p \in OnCompleteCallsFor(i) :
                     onCompleteCalls[p].pdfData = PdfOf(runFiles[i])

\* a run with merging and auto-print enabled has returned with two successful
\* files in one batch, a merged document handed over and printed
C23_Witness ==
  /\ pc = "returned"
  /\ runOptions.mergePdf
  /\ runOptions.autoPrint
  /\ \E i, j \in DOMAIN task :
       i # j /\ BatchNo(i) = BatchNo(j) /\ task[i] = "success" /\ task[j] = "success"
  /\ onBatchCompleteCalls # <<>>
  /\ printed # <<>>

Pages(doc) == {doc[p] : p \in DOMAIN doc}

\* C26: when the run has returned, the bytes of every successful file have
\* been handed to the caller, whatever the merge steps did: by onComplete
\* without merging, inside a document passed to onBatchComplete with merging
C26_EverySuccessDelivered ==
  pc = "returned" =>
    \A i \in DOMAIN task :
      task[i] = "success" =>
        IF runOptions.mergePdf
          THEN \E q \in DOMAIN onBatchCompleteCalls :
                 Pages(PdfOf(runFiles[i])) \subseteq Pages(onBatchCompleteCalls[q])
          ELSE \E q \in DOMAIN onCompleteCalls :
                 onCompleteCalls[q].pdfData = PdfOf(runFiles[i])

\* ------------------------------------------------ pdf-generator: addTextPage
\* width of ' ' at fontSize 11, in twentieths of a point
SpaceWidth == 61

\* line.split(' ') of the lines tried, as the widths of the words at fontSize
\* 11; width 0 is the empty string
WordLists ==
  {<<0>>, <<Pt(100)>>, <<Pt(300), Pt(300)>>, <<Pt(200), Pt(200), Pt(300)>>,
   <<Pt(300), Pt(600), Pt(300)>>}

BodyLineCounts == {1, MaxBodyLines \div 2, MaxBodyLines}

\* email.textBody.split('\n') of the bodies tried
TextBodies ==
  {[j \in 1..n |-> IF j % 2 = 1 THEN a ELSE b] :
     n \in BodyLineCounts, a \in WordLists, b \in WordLists}

\* const maxLineWidth = width - margin * 2
MaxLineWidthOfPage == Pt(PageWidth) - Pt(PageMargin) * 2

\* variant: a new page only once the cursor has left the page
BelowPageBottom(yPos) == yPos < 0

\* if (yPos < margin)
BelowBottomMargin(yPos) == yPos < Pt(PageMargin)

\* currentPage.drawText(currentLine, { y: yPos, ... })
DrawText(drawn, page, yPos, line) ==
  Append(drawn, [page |-> page, y |-> yPos, line |-> line])

TextInit ==
  /\ AppInit
  /\ MergeIdle
  /\ ComposeIdle
  /\ WrapIdle
  /\ DecodeIdle
  /\ HeaderIdle
  /\ AttachIdle
  /\ WorkerIdle
  /\ LogIdle
  /\ tpPc = "called"
  /\ tpTextLines \in TextBodies
  /\ tpLine = 0
  /\ tpI = 0
  /\ tpCurrentLine = 0
  /\ tpYPos = 0
  /\ tpCurrentPage = 0
  /\ tpDrawn = <<>>

\* the first page with its title and rule, and the cursor under them
AddTextPageCall ==
  /\ tpPc = "called"
  /\ tpPc' = "line"
  /\ tpCurrentPage' = 1
  /\ tpYPos' = Pt(PageHeight) - Pt(PageMargin) - Pt(50)
  /\ tpLine' = 1
  /\ UNCHANGED <<tpTextLines, tpI, tpCurrentLine, tpDrawn>>
  /\ UNCHANGED outsideText

\* the head of one iteration of for (const line of textLines): the page check
\* and the split into words
TextLineStart ==
  /\ tpPc = "line"
  /\ tpLine <= Len(tpTextLines)
  /\ IF BelowBottomMargin(tpYPos)
       THEN /\ tpCurrentPage' = tpCurrentPage + 1
            /\ tpYPos' = Pt(PageHeight) - Pt(PageMargin)
       ELSE UNCHANGED <<tpCurrentPage, tpYPos>>
  /\ tpCurrentLine' = 0
  /\ tpI' = 0
  /\ tpPc' = "word"
  /\ UNCHANGED <<tpTextLines, tpLine, tpDrawn>>
  /\ UNCHANGED outsideText

\* one iteration of the loop over the words of the line
TextWordStep ==
  /\ tpPc = "word"
  /\ tpI < Len(tpTextLines[tpLine])
  /\ LET word == tpTextLines[tpLine][tpI + 1]
         testLine == tpCurrentLine + (IF tpCurrentLine # 0 THEN SpaceWidth ELSE 0)
                       + word
         lineWidth == testLine IN
     IF lineWidth > MaxLineWidthOfPage /\ tpI > 0
       THEN /\ tpDrawn' = DrawText(tpDrawn, tpCurrentPage, tpYPos, tpLine)
            /\ tpCurrentLine' = word
            /\ IF BelowBottomMargin(tpYPos - LineHeightText)
                 THEN /\ tpCurrentPage' = tpCurrentPage + 1
                      /\ tpYPos' = Pt(PageHeight) - Pt(PageMargin)
                 ELSE /\ tpYPos' = tpYPos - LineHeightText
                      /\ UNCHANGED tpCurrentPage
       ELSE /\ tpCurrentLine' = testLine
            /\ UNCHANGED <<tpDrawn, tpYPos, tpCurrentPage>>
  /\ tpI' = tpI + 1
  /\ UNCHANGED <<tpPc, tpTextLines, tpLine>>
  /\ UNCHANGED outsideText

\* after the words: the last line of the wrapped line is drawn unless it is
\* empty, and the cursor goes down one line
TextLineEnd ==
  /\ tpPc = "word"
  /\ tpI >= Len(tpTextLines[tpLine])
  /\ tpDrawn' = IF tpCurrentLine # 0
                  THEN DrawText(tpDrawn, tpCurrentPage, tpYPos, tpLine)
                  ELSE tpDrawn
  /\ tpYPos' = tpYPos - LineHeightText
  /\ tpLine' = tpLine + 1
  /\ tpPc' = "line"
  /\ UNCHANGED <<tpTextLines, tpI, tpCurrentLine, tpCurrentPage>>
  /\ UNCHANGED outsideText

\* the loop over textLines is over
AddTextPageReturn ==
  /\ tpPc = "line"
  /\ tpLine > Len(tpTextLines)
  /\ tpPc' = "done"
  /\ UNCHANGED <<tpTextLines, tpLine, tpI, tpCurrentLine, tpYPos, tpCurrentPage,
                 tpDrawn>>
  /\ UNCHANGED outsideText

TextNext ==
  \/ AddTextPageCall
  \/ TextLineStart
  \/ TextWordStep
  \/ TextLineEnd
  \/ AddTextPageReturn

TextSpec == TextInit /\ [][TextNext]_vars

\* C24: every body line of addTextPage is drawn with the cursor at or above
\* the bottom margin, on the page that is current at that moment: the cursor
\* is never below the margin where a line can be drawn, and of two successive
\* draws the second is lower on the same page or on a later page
C24_TextDrawnAboveBottomMargin ==
  /\ tpPc = "word" => tpYPos >= Pt(PageMargin)
  /\ \A p \in DOMAIN tpDrawn :
       /\ tpDrawn[p].y >= Pt(PageMargin)
       /\ tpDrawn[p].y <= Pt(PageHeight) - Pt(PageMargin)
       /\ tpDrawn[p].page \in 1..tpCurrentPage
       /\ p > 1 =>
            \/ /\ tpDrawn[p].page = tpDrawn[p - 1].page
               /\ tpDrawn[p].y < tpDrawn[p - 1].y
            \/ tpDrawn[p].page > tpDrawn[p - 1].page

\* a line has found the cursor below the margin and is the first drawn on the
\* second page, at its top margin
C24_Witness ==
  /\ tpPc = "done"
  /\ \E p \in DOMAIN tpDrawn :
       /\ p > 1
       /\ tpDrawn[p - 1].page = 1
       /\ tpDrawn[p - 1].line # tpDrawn[p].line
       /\ tpDrawn[p - 1].y - LineHeightText < Pt(PageMargin)
       /\ tpDrawn[p].page = 2
       /\ tpDrawn[p].y = Pt(PageHeight) - Pt(PageMargin)

\* ----------------------------------------- pdf-generator: addAttachmentsPage
EntryCounts == {1, MaxEntries \div 2, MaxEntries}

\* email.attachments of the lists tried: an attachment is its contentId,
\* empty when it has none
AttachmentLists ==
  {[j \in 1..n |-> [contentId |-> IF j % 2 = 1 THEN a ELSE b]] :
     n \in EntryCounts, a \in {<<>>, <<"a">>}, b \in {<<>>, <<"a">>}}

\* variant: a new page only once the cursor is below the margin
EntryBelowBottomMargin(yPos) == yPos < Pt(PageMargin)

\* if (yPos < margin + lineHeight * 4)
EntryNeedsNewPage(yPos) == yPos < Pt(PageMargin) + LineHeightHeader * 4

\* currentPage.drawText of one sub-line of entry i
DrawEntryLine(drawn, page, yPos, i, sub) ==
  Append(drawn, [page |-> page, y |-> yPos, entry |-> i, sub |-> sub])

AttachInit ==
  /\ AppInit
  /\ MergeIdle
  /\ ComposeIdle
  /\ WrapIdle
  /\ DecodeIdle
  /\ HeaderIdle
  /\ TextIdle
  /\ WorkerIdle
  /\ LogIdle
  /\ apPc = "called"
  /\ apAttachments \in AttachmentLists
  /\ apI = 0
  /\ apYPos = 0
  /\ apCurrentPage = 0
  /\ apDrawn = <<>>

\* the first page with its title and rule, and the cursor under them
AddAttachmentsPageCall ==
  /\ apPc = "called"
  /\ apPc' = "entry"
  /\ apCurrentPage' = 1
  /\ apYPos' = Pt(PageHeight) - Pt(PageMargin) - Pt(50)
  /\ UNCHANGED <<apAttachments, apI, apDrawn>>
  /\ UNCHANGED outsideAttach

\* the head of one iteration: the page check, with the continued title and
\* rule of a new page
AttachEntryStart ==
  /\ apPc = "entry"
  /\ apI < Len(apAttachments)
  /\ IF EntryNeedsNewPage(apYPos)
       THEN /\ apCurrentPage' = apCurrentPage + 1
            /\ apYPos' = Pt(PageHeight) - Pt(PageMargin) - Pt(50)
       ELSE UNCHANGED <<apCurrentPage, apYPos>>
  /\ apPc' = "name"
  /\ UNCHANGED <<apAttachments, apI, apDrawn>>
  /\ UNCHANGED outsideAttach

\* the file name, then yPos -= lineHeight
AttachDrawName ==
  /\ apPc = "name"
  /\ apDrawn' = DrawEntryLine(apDrawn, apCurrentPage, apYPos, apI + 1, "name")
  /\ apYPos' = apYPos - LineHeightHeader
  /\ apPc' = "type"
  /\ UNCHANGED <<apAttachments, apI, apCurrentPage>>
  /\ UNCHANGED outsideAttach

\* the content type, then yPos -= lineHeight
AttachDrawType ==
  /\ apPc = "type"
  /\ apDrawn' = DrawEntryLine(apDrawn, apCurrentPage, apYPos, apI + 1, "type")
  /\ apYPos' = apYPos - LineHeightHeader
  /\ apPc' = "size"
  /\ UNCHANGED <<apAttachments, apI, apCurrentPage>>
  /\ UNCHANGED outsideAttach

\* the size, the content id one line lower when the attachment has one, then
\* yPos -= lineHeight * 1.5 and the next i
AttachDrawSize ==
  /\ apPc = "size"
  /\ LET withSize == DrawEntryLine(apDrawn, apCurrentPage, apYPos, apI + 1, "size") IN
     IF apAttachments[apI + 1].contentId # <<>>
       THEN /\ apDrawn' = DrawEntryLine(withSize, apCurrentPage,
                                        apYPos - LineHeightHeader, apI + 1,
                                        "contentId")
            /\ apYPos' = apYPos - LineHeightHeader - (LineHeightHeader * 3) \div 2
       ELSE /\ apDrawn' = withSize
            /\ apYPos' = apYPos - (LineHeightHeader * 3) \div 2
  /\ apI' = apI + 1
  /\ apPc' = "entry"
  /\ UNCHANGED <<apAttachments, apCurrentPage>>
  /\ UNCHANGED outsideAttach

\* the loop over the attachments is over
AddAttachmentsPageReturn ==
  /\ apPc = "entry"
  /\ apI >= Len(apAttachments)
  /\ apPc' = "done"
  /\ UNCHANGED <<apAttachments, apI, apYPos, apCurrentPage, apDrawn>>
  /\ UNCHANGED outsideAttach

AttachNext ==
  \/ AddAttachmentsPageCall
  \/ AttachEntryStart
  \/ AttachDrawName
  \/ AttachDrawType
  \/ AttachDrawSize
  \/ AddAttachmentsPageReturn

AttachSpec == AttachInit /\ [][AttachNext]_vars

\* the draws of entry e so far
EntryDraws(e) == {p \in DOMAIN apDrawn : apDrawn[p].entry = e}

\* the sub-lines entry e has: three, and the content id when there is one
SubLinesOf(e) == IF apAttachments[e].contentId # <<>> THEN 4 ELSE 3

\* C25: the sub-lines of one attachment entry are all on one page and none is
\* below the bottom margin; an entry that the space left under the previous
\* entry cannot hold whole is drawn whole on the next page
C25_EntryWholeOnOnePage ==
  /\ \A p, q \in DOMAIN apDrawn :
       apDrawn[p].entry = apDrawn[q].entry => apDrawn[p].page = apDrawn[q].page
  /\ \A p \in DOMAIN apDrawn : apDrawn[p].y >= Pt(PageMargin)
  /\ \A p \in DOMAIN apDrawn :
       (p > 1 /\ apDrawn[p].sub = "name") =>
         LET cursor == apDrawn[p - 1].y - (LineHeightHeader * 3) \div 2
             lowest == cursor - (SubLinesOf(apDrawn[p].entry) - 1) * LineHeightHeader IN
         lowest < Pt(PageMargin) => apDrawn[p].page = apDrawn[p - 1].page + 1
  /\ \A e \in 1..apI : Cardinality(EntryDraws(e)) = SubLinesOf(e)

\* the space left on the first page could not hold an entry, and the entry is
\* whole on the second page
C25_Witness ==
  /\ apPc = "done"
  /\ \E p \in DOMAIN apDrawn :
       /\ p > 1
       /\ apDrawn[p].sub = "name"
       /\ apDrawn[p - 1].page = 1
       /\ apDrawn[p - 1].y - (LineHeightHeader * 3) \div 2
            - (SubLinesOf(apDrawn[p].entry) - 1) * LineHeightHeader < Pt(PageMargin)
       /\ \A q \in EntryDraws(apDrawn[p].entry) : apDrawn[q].page = 2
       /\ Cardinality(EntryDraws(apDrawn[p].entry)) = SubLinesOf(apDrawn[p].entry)

\* ------------------------------------- convert route and PdfWorkerService
Requests == 1..MaxRequests

Pending == [state |-> "pending", of |-> 0, success |-> FALSE]
NoPromise == [state |-> "none", of |-> 0, success |-> FALSE]
NoResponse == [status |-> 0, of |-> 0]

\* the module-level pdfWorkerService, and the requests not yet received
WorkerInit ==
  /\ AppInit
  /\ MergeIdle
  /\ ComposeIdle
  /\ WrapIdle
  /\ DecodeIdle
  /\ HeaderIdle
  /\ TextIdle
  /\ AttachIdle
  /\ LogIdle
  /\ pwWorker = 0
  /\ pwCreated = 0
  /\ pwTerminated = {}
  /\ pwListeners = {}
  /\ pwInbox = {}
  /\ pwPc = [r \in Requests |-> "received"]
  /\ pwPromise = [r \in Requests |-> NoPromise]
  /\ pwResponse = [r \in Requests |-> NoResponse]

\* worker.on('message', ...): every listener registered on the worker is
\* called with every message the worker posts
ListenersFor(w) == {l \in pwListeners : l.worker = w}

\* POST up to the call of generatePdf: formData, arrayBuffer and simpleParser
\* have completed, or one of them has thrown and the catch block has answered
PostParsed(r) ==
  /\ pwPc[r] = "received"
  /\ \/ /\ pwPc' = [pwPc EXCEPT ![r] = "parsed"]
        /\ UNCHANGED pwResponse
     \/ /\ pwPc' = [pwPc EXCEPT ![r] = "finally"]
        /\ pwResponse' = [pwResponse EXCEPT ![r] = [status |-> 500, of |-> 0]]
  /\ UNCHANGED <<pwWorker, pwCreated, pwTerminated, pwListeners, pwInbox, pwPromise>>
  /\ UNCHANGED outsideWorker

\* generatePdf up to its first suspension: with no worker, initialize()
\* creates one and the call waits on its await; with a worker, the promise is
\* created, its listener registered and the mail posted
GeneratePdfCall(r) ==
  /\ pwPc[r] = "parsed"
  /\ IF pwWorker = 0
       THEN /\ pwCreated' = pwCreated + 1
            /\ pwWorker' = pwCreated + 1
            /\ pwPc' = [pwPc EXCEPT ![r] = "initialized"]
            /\ UNCHANGED <<pwListeners, pwInbox, pwPromise>>
       ELSE /\ pwListeners' = pwListeners \cup {[worker |-> pwWorker, call |-> r]}
            /\ pwInbox' = pwInbox \cup {[worker |-> pwWorker, call |-> r]}
            /\ pwPromise' = [pwPromise EXCEPT ![r] = Pending]
            /\ pwPc' = [pwPc EXCEPT ![r] = "awaiting"]
            /\ UNCHANGED <<pwWorker, pwCreated>>
  /\ UNCHANGED <<pwTerminated, pwResponse>>
  /\ UNCHANGED outsideWorker

\* generatePdf after await this.initialize(): the promise is created; with
\* this.worker set, its listener is registered and the mail posted; with
\* this.worker null again, this.worker?.on and this.worker?.postMessage do
\* nothing
GeneratePdfResume(r) ==
  /\ pwPc[r] = "initialized"
  /\ pwPromise' = [pwPromise EXCEPT ![r] = Pending]
  /\ pwPc' = [pwPc EXCEPT ![r] = "awaiting"]
  /\ IF pwWorker # 0
       THEN /\ pwListeners' = pwListeners \cup {[worker |-> pwWorker, call |-> r]}
            /\ pwInbox' = pwInbox \cup {[worker |-> pwWorker, call |-> r]}
       ELSE UNCHANGED <<pwListeners, pwInbox>>
  /\ UNCHANGED <<pwWorker, pwCreated, pwTerminated, pwResponse>>
  /\ UNCHANGED outsideWorker

\* the worker thread has generated, or failed to generate, the PDF of one
\* mail and posted the result: the listeners on that worker settle their
\* promises, those that are still pending
WorkerPostsResult(w, r) ==
  /\ [worker |-> w, call |-> r] \in pwInbox
  /\ w \notin pwTerminated
  /\ \E success \in BOOLEAN :
       pwPromise' =
         [c \in Requests |->
            IF /\ pwPromise[c].state = "pending"
               /\ \E l \in ListenersFor(w) : l.call = c
              THEN [state |-> IF success THEN "resolved" ELSE "rejected",
                    of |-> r, success |-> success]
              ELSE pwPromise[c]]
  /\ pwInbox' = pwInbox \ {[worker |-> w, call |-> r]}
  /\ UNCHANGED <<pwWorker, pwCreated, pwTerminated, pwListeners, pwPc, pwResponse>>
  /\ UNCHANGED outsideWorker

\* POST after await pdfWorkerService.generatePdf(parsed): the PDF response, or
\* the 500 of the catch block
PostRespond(r) ==
  /\ pwPc[r] = "awaiting"
  /\ pwPromise[r].state \in {"resolved", "rejected"}
  /\ pwResponse' = [pwResponse EXCEPT ![r] =
                      IF pwPromise[r].state = "resolved"
                        THEN [status |-> 200, of |-> pwPromise[r].of]
                        ELSE [status |-> 500, of |-> 0]]
  /\ pwPc' = [pwPc EXCEPT ![r] = "finally"]
  /\ UNCHANGED <<pwWorker, pwCreated, pwTerminated, pwListeners, pwInbox, pwPromise>>
  /\ UNCHANGED outsideWorker

\* cleanup() of the finally block up to its await: terminate() is called on
\* the worker there is, whoever is using it
CleanupTerminate(r) ==
  /\ pwPc[r] = "finally"
  /\ IF pwWorker # 0
       THEN /\ pwTerminated' = pwTerminated \cup {pwWorker}
            /\ pwPc' = [pwPc EXCEPT ![r] = "terminating"]
       ELSE /\ pwPc' = [pwPc EXCEPT ![r] = "done"]
            /\ UNCHANGED pwTerminated
  /\ UNCHANGED <<pwWorker, pwCreated, pwListeners, pwInbox, pwPromise, pwResponse>>
  /\ UNCHANGED outsideWorker

\* cleanup() after await this.worker.terminate(): this.worker = null
CleanupDone(r) ==
  /\ pwPc[r] = "terminating"
  /\ pwWorker' = 0
  /\ pwPc' = [pwPc EXCEPT ![r] = "done"]
  /\ UNCHANGED <<pwCreated, pwTerminated, pwListeners, pwInbox, pwPromise, pwResponse>>
  /\ UNCHANGED outsideWorker

WorkerNext ==
  \/ \E r \in Requests : PostParsed(r)
  \/ \E r \in Requests : GeneratePdfCall(r)
  \/ \E r \in Requests : GeneratePdfResume(r)
  \/ \E w \in 1..MaxRequests, r \in Requests : WorkerPostsResult(w, r)
  \/ \E r \in Requests : PostRespond(r)
  \/ \E r \in Requests : CleanupTerminate(r)
  \/ \E r \in Requests : CleanupDone(r)

WorkerSpec == WorkerInit /\ [][WorkerNext]_vars

\* C27: each call's promise settles with the result the worker produced for
\* that call's own mail, also while another call is outstanding on the same
\* PdfWorkerService
C27_SettlesWithOwnResult ==
  \A r \in DOMAIN pwPromise :
    pwPromise[r].state \in {"resolved", "rejected"} => pwPromise[r].of = r

\* the calls that can still be settled: the call has a listener on a worker
\* that has not been terminated and has a mail to answer
CanSettle(r) ==
  \E l \in pwListeners :
    /\ l.call = r
    /\ l.worker \notin pwTerminated
    /\ \E m \in pwInbox : m.worker = l.worker

\* C28: every generatePdf call resolves or rejects, also when the cleanup of
\* another request terminates the worker while the call is outstanding: a
\* call whose promise is pending can still be settled (terminate() is final
\* and nothing else settles a promise, so a call that cannot be settled now
\* never is, and its POST never returns a response)
C28_OutstandingCallCanSettle ==
  \A r \in DOMAIN pwPromise :
    (pwPc[r] = "awaiting" /\ pwPromise[r].state = "pending") => CanSettle(r)

\* ------------------------------------------------- app-store: the file list
\* addFiles(newFiles) with k files
AddFiles(k) ==
  /\ added + k <= NumFiles
  /\ files' = files \o [j \in 1..k |-> FileItem(added + j)]
  /\ totalCount' = totalCount + k
  /\ added' = added + k
  /\ UNCHANGED <<processedCount, isProcessing, options, logs, isConverting,
                 toggles, runs, runVars, callVars>>
  /\ UNCHANGED libVars

\* updateFileStatus(id, status, progress, error)
UpdateFileStatusCall(id, status) ==
  /\ files' = UpdateFileStatus(files, id, status, {}, {})
  /\ UNCHANGED <<totalCount, processedCount, isProcessing, options, logs,
                 uiVars, runVars, callVars>>
  /\ UNCHANGED libVars

\* startProcessing
StartProcessing ==
  /\ isProcessing' = TRUE
  /\ UNCHANGED <<files, totalCount, processedCount, options, logs, uiVars,
                 runVars, callVars>>
  /\ UNCHANGED libVars

\* incrementProcessed
IncrementProcessed ==
  /\ processedCount < NumFiles
  /\ processedCount' = processedCount + 1
  /\ UNCHANGED <<files, totalCount, isProcessing, options, logs, uiVars,
                 runVars, callVars>>
  /\ UNCHANGED libVars

\* stopProcessing
StopProcessing ==
  /\ isProcessing' = FALSE
  /\ processedCount' = 0
  /\ UNCHANGED <<files, totalCount, options, logs, uiVars, runVars, callVars>>
  /\ UNCHANGED libVars

\* resetProcessingStats
ResetProcessingStats ==
  /\ processedCount' = 0
  /\ totalCount' = 0
  /\ UNCHANGED <<files, isProcessing, options, logs, uiVars, runVars, callVars>>
  /\ UNCHANGED libVars

\* the operations of the store on files and on the two counters, in any order
StoreNext ==
  \/ \E k \in 1..MaxAdd : AddFiles(k)
  \/ \E k \in 1..NumFiles : RemoveFile(Uuid(k))
  \/ ClearFiles
  \/ \E k \in 1..NumFiles, status \in {"processing", "success", "error"} :
       UpdateFileStatusCall(Uuid(k), status)
  \/ StartProcessing
  \/ IncrementProcessed
  \/ StopProcessing
  \/ ResetProcessingStats

StoreSpec == Init /\ [][StoreNext]_vars

\* C29: after any sequence of addFiles, removeFile, clearFiles,
\* updateFileStatus, stopProcessing and resetProcessingStats, totalCount is
\* the number of entries of files
C29_TotalCountIsFileCount == totalCount = Len(files)

\* ------------------------------------------------------- app-store: the log
\* addLog(level, message) with the next message
AddLogCall ==
  /\ lgSerial < MaxLogs
  /\ logs' = AddLog(logs, IF lgSerial % 2 = 0 THEN "info" ELSE "error",
                    Msg("message", lgSerial + 1, 0))
  /\ lgSerial' = lgSerial + 1
  /\ lgCount' = lgCount + 1
  /\ UNCHANGED <<files, totalCount, processedCount, isProcessing, options,
                 uiVars, runVars, callVars>>
  /\ UNCHANGED <<mergeVars, composeVars, wrapVars, decodeVars, headerVars,
                 textVars, attachVars, workerVars>>

\* clearLogs, the button of LogViewer
ClearLogs ==
  /\ logs' = <<>>
  /\ lgCount' = 0
  /\ UNCHANGED lgSerial
  /\ UNCHANGED <<files, totalCount, processedCount, isProcessing, options,
                 uiVars, runVars, callVars>>
  /\ UNCHANGED <<mergeVars, composeVars, wrapVars, decodeVars, headerVars,
                 textVars, attachVars, workerVars>>

LogNext ==
  \/ AddLogCall
  \/ ClearLogs

LogSpec == Init /\ [][LogNext]_vars

====
